---- MODULE Spec2Model ----
(***************************************************************************)
(* Backup execution engine and job orchestration of db_guardian            *)
(* (apps/backups/services.py, apps/backups/tasks.py, apps/backups/views.py,*)
(* apps/backups/admin.py).                                                 *)
(*                                                                         *)
(* External collaborators (shell commands, SSH, file transfers, the dump   *)
(* tool, object storage) are modelled by their outcome, drawn              *)
(* nondeterministically at the step that calls them.                       *)
(***************************************************************************)
EXTENDS Integers, Sequences, FiniteSets, TLC

VARIABLES
    inst,      \* the MySQLInstance row the executor was built with
    call,      \* arguments of the current BackupExecutor.execute_backup call
    epc,       \* position inside execute_backup
    ops,       \* commands / transfers issued by the current call, in order
    ex,        \* locals of the running backup method and the files it made
    dump,      \* database selection handed to the dump tool
    result,    \* dict returned by execute_backup
    job,       \* the queued task message: its kwargs and the rows they name
    jpc,       \* position of the task body (execute_backup_task / oneoff)
    retries,   \* self.request.retries of the current delivery
    records,   \* BackupRecord table, in creation order
    dbi,       \* index of the database the core loop is at
    engine_calls, \* database_name of every execute_backup call of the job
    countdowns,\* countdown of every self.retry() issued for the job
    runs,      \* number of times the task body has run for the job
    task,      \* BackupOneOffTask row
    ret,       \* value returned by the task body
    rreq,      \* a restore request: the entry point, its body, the record
    rpc,       \* position inside the restore handler
    rlog,      \* downloads and executor calls the restore handler made
    rresp,     \* message of the restore handler's response
    cresp,     \* answer of the last cancel request on the one-off task
    store,     \* BackupRecord table the retention sweeps work on, by id
    sw,        \* the running sweep or record deletion: its locals and log
    nm,        \* one backup run followed by filename inference on its record
    disp,      \* task queue and worker processes: messages queued and running
    cr,        \* concurrent restore requests and the temporary files they use
    beat       \* BackupStrategy rows, PeriodicTask rows and the last sync

engineVars == <<inst, call, epc, ops, ex, dump, result>>

jobVars == <<job, jpc, retries, records, dbi, engine_calls, countdowns, runs,
             task, ret>>

restoreVars == <<rreq, rpc, rlog, rresp>>

oneoffVars == <<cresp>>

retentionVars == <<store, sw>>

namingVars == <<nm>>

dispatchVars == <<disp>>

tempVars == <<cr>>

beatVars == <<beat>>

\* What the engine, the task bodies and the restore handlers leave alone.
nonEngineVars == <<jobVars, restoreVars, oneoffVars, retentionVars, namingVars,
                   dispatchVars, tempVars, beatVars>>

nonJobVars == <<restoreVars, oneoffVars, retentionVars, namingVars,
                dispatchVars, tempVars, beatVars>>

nonRestoreVars == <<engineVars, jobVars, oneoffVars, retentionVars,
                    namingVars, dispatchVars, tempVars, beatVars>>

vars == <<inst, call, epc, ops, ex, dump, result, job, jpc, retries, records,
          dbi, engine_calls, countdowns, runs, task, ret, rreq, rpc, rlog,
          rresp, cresp, store, sw, nm, disp, cr, beat>>

(***************************************************************************)
(* Outcomes of the external collaborators.                                 *)
(***************************************************************************)
\* RemoteExecutor.run: exit code 0, non-zero exit code, or an exception
\* (connection error, subprocess.TimeoutExpired).
RunOutcomes == {"ok", "nonzero", "raise"}

\* RemoteExecutor.upload / download, RemoteStorageClient.upload.
XferOutcomes == {"ok", "raise"}

BackupTypes == {"full", "hot", "incremental", "cold"}

PhysicalTypes == {"hot", "cold", "incremental"}

(***************************************************************************)
(* Instances: the fields of MySQLInstance the executor reads.              *)
(***************************************************************************)
Instances ==
    { i \in [ data_dir : BOOLEAN,
              deployment_type : {"docker", "systemd"},
              docker_container_name : BOOLEAN,
              ssh : BOOLEAN,
              remote_backup_root : BOOLEAN ] :
        i.deployment_type = "systemd" => ~i.docker_container_name }

\* BackupRecord.file_path of the base handed to an incremental backup:
\* no base at all, or a success record whose file_path is '', '.' or a file.
BaseBackups == {"none", "", ".", "F"}

\* Arguments callers pass to execute_backup.  remote_config is only ever
\* built when store_remote is set, base_backup only for incremental.
\* compress and storage_path only select file names (the .gz suffix, the tar
\* flag, the directory) and are left to the naming operators.
Calls ==
    { c \in [ backup_type : BackupTypes,
              database_name : {"", "shop"},
              store_local : BOOLEAN,
              store_remote : BOOLEAN,
              store_oss : BOOLEAN,
              remote_storage_path : BOOLEAN,
              remote_config : {"none", "ssh", "ftp"},
              base_backup : BaseBackups ] :
        /\ (c.remote_config # "none" => c.store_remote)
        /\ (c.backup_type # "incremental" => c.base_backup = "none") }

NoCall == [ backup_type |-> "full", database_name |-> "",
            store_local |-> TRUE, store_remote |-> FALSE, store_oss |-> FALSE,
            remote_storage_path |-> FALSE, remote_config |-> "none",
            base_backup |-> "none" ]

NoResult == [ success |-> FALSE, file_path |-> "", remote_path |-> FALSE,
              object_storage_path |-> FALSE, error |-> "unset" ]

NoDump == [ all_databases |-> FALSE, dbs |-> {}, include_system |-> FALSE,
            listing |-> {} ]

ExInit == [ file |-> "none", remote_keep |-> FALSE, oss |-> FALSE,
            remote_error |-> FALSE, pending |-> "none", scratch |-> {},
            stop_code |-> "unset" ]

Fail(msg) == [ success |-> FALSE, file_path |-> "", remote_path |-> FALSE,
               object_storage_path |-> FALSE, error |-> msg ]

\* except Exception in execute_backup: every exception raised below it
\* becomes an error-carrying result.
Caught == Fail("exception")

Return(r) ==
    /\ result' = r
    /\ epc' = "done"

(***************************************************************************)
(* Remote placement helpers.                                               *)
(***************************************************************************)
\* remote_root = (remote_root_override or instance.remote_backup_root).strip()
remote_root == call.remote_storage_path \/ inst.remote_backup_root

\* BackupExecutor._get_remote_backup_path: None without a root or without
\* SSH to the MySQL host; otherwise mkdir -p (exit code ignored) and a path.
get_remote_backup_path(mk) ==
    IF ~remote_root THEN "none"
    ELSE IF ~inst.ssh THEN "none"
    ELSE IF mk = "raise" THEN "raise"
    ELSE "path"

\* BackupExecutor._upload_to_remote, by the outcome of its mkdir (mk) and of
\* its file transfer (up): a path, None or an exception.
upload_to_remote(mk, up) ==
    IF call.remote_config # "none"
    THEN IF ~remote_root THEN "none"
         ELSE IF call.remote_config = "ssh"
              THEN IF mk = "raise" \/ up = "raise" THEN "raise" ELSE "path"
              ELSE IF up = "raise" THEN "raise" ELSE "path"
    ELSE IF ~inst.ssh THEN "raise"
         ELSE IF get_remote_backup_path(mk) # "path"
              THEN get_remote_backup_path(mk)
              ELSE IF up = "raise" THEN "raise" ELSE "path"

(***************************************************************************)
(* Database selection of a logical dump.                                   *)
(***************************************************************************)
\* Names SHOW DATABASES may return (a user schema and system schemas in
\* several letter cases).
ServerDatabases == {"shop", "mysql", "SYS"}

system_dbs == {"information_schema", "mysql", "performance_schema", "sys"}

\* str.lower() on the names above.
lower(name) ==
    IF name = "SYS" THEN "sys" ELSE name

\* _get_user_databases comparing names without lower().
get_user_databases_case_sensitive(listing) ==
    { n \in listing : n \notin system_dbs }

\* BackupExecutor._get_user_databases on a server listing (an empty listing
\* also stands for a failed connection, which the method swallows).
get_user_databases(listing) == { n \in listing : lower(n) \notin system_dbs }

(***************************************************************************)
(* BackupExecutor.execute_backup                                           *)
(***************************************************************************)
\* A caller invokes execute_backup directly with arbitrary arguments.
DirectCall ==
    /\ epc = "idle"
    /\ \E c \in Calls : call' = c
    /\ epc' = "call"
    /\ ops' = <<>>
    /\ ex' = ExInit
    /\ dump' = NoDump
    /\ result' = NoResult
    /\ UNCHANGED <<inst, nonEngineVars>>

\* execute_backup creating the storage directory before it looks at the
\* database scope of a physical backup.
execute_backup_entry_mkdir_first ==
    /\ epc = "call"
    /\ \E mk \in XferOutcomes :
         /\ ops' = Append(ops, "mkdir_local")
         /\ IF mk = "raise"
            THEN Return(Caught)
            ELSE IF call.backup_type \in PhysicalTypes /\ call.database_name # ""
            THEN Return(Fail("no_single_database"))
            ELSE /\ epc' = call.backup_type
                 /\ UNCHANGED result
    /\ UNCHANGED <<inst, call, ex, dump, nonEngineVars>>

\* Entry of execute_backup up to the dispatch on backup_type.
execute_backup_entry ==
    /\ epc = "call"
    /\ IF call.backup_type \in PhysicalTypes /\ call.database_name # ""
       THEN /\ Return(Fail("no_single_database"))
            /\ UNCHANGED <<ops>>
       ELSE \E mk \in XferOutcomes :
              /\ ops' = Append(ops, "mkdir_local")
              /\ IF mk = "raise"
                 THEN Return(Caught)
                 ELSE /\ epc' = call.backup_type
                      /\ UNCHANGED result
    /\ UNCHANGED <<inst, call, ex, dump, nonEngineVars>>

(***************************************************************************)
(* BackupExecutor._execute_logical_backup                                  *)
(***************************************************************************)
\* dump binary lookup, _build_mysqldump_command, subprocess.run, compression.
\* include_system is settings.MYSQL_DUMP_INCLUDE_SYSTEM_DATABASES.
execute_logical_backup_dump ==
    /\ epc = "full"
    /\ \E dump_bin \in BOOLEAN, include_system \in BOOLEAN,
          listing \in SUBSET ServerDatabases, out \in RunOutcomes :
         IF ~dump_bin
         THEN /\ Return(Fail("no_dump_binary"))
              /\ UNCHANGED <<ops, ex, dump>>
         ELSE IF call.database_name = "" /\ ~include_system
                 /\ get_user_databases(listing) = {}
         THEN /\ Return(Fail("no_user_databases"))
              /\ UNCHANGED <<ops, ex, dump>>
         ELSE /\ dump' = IF call.database_name # ""
                         THEN [NoDump EXCEPT !.dbs = {call.database_name}]
                         ELSE IF include_system
                         THEN [NoDump EXCEPT !.all_databases = TRUE,
                                             !.include_system = TRUE]
                         ELSE [NoDump EXCEPT
                                 !.dbs = get_user_databases(listing),
                                 !.listing = listing]
              /\ ops' = Append(ops, "dump")
              /\ ex' = [ex EXCEPT !.file = "present"]
              /\ IF out = "nonzero" THEN Return(Fail("dump_failed"))
                 ELSE IF out = "raise" THEN Return(Fail("timeout"))
                 ELSE /\ epc' = "logical_remote"
                      /\ UNCHANGED result
    /\ UNCHANGED <<inst, call, nonEngineVars>>

\* if store_remote: try _upload_to_remote except: remote_error
execute_logical_backup_remote ==
    /\ epc = "logical_remote"
    /\ IF call.store_remote
       THEN \E mk \in RunOutcomes, up \in XferOutcomes :
              /\ ops' = Append(ops, "upload_remote")
              /\ ex' = [ex EXCEPT
                          !.remote_keep = (upload_to_remote(mk, up) = "path"),
                          !.remote_error = (upload_to_remote(mk, up) = "raise")]
       ELSE UNCHANGED <<ops, ex>>
    /\ epc' = "logical_oss"
    /\ UNCHANGED <<inst, call, dump, result, nonEngineVars>>

\* if store_oss: _upload_to_object_storage (None on any failure); then the
\* remote check, the local unlink and the returned dict.
execute_logical_backup_finish ==
    /\ epc = "logical_oss"
    /\ \E oss \in (IF call.store_oss THEN BOOLEAN ELSE {FALSE}) :
         /\ IF call.store_remote /\ ~ex.remote_keep
            THEN /\ Return(Fail("remote_upload_failed"))
                 /\ ops' = IF call.store_oss THEN Append(ops, "upload_oss")
                           ELSE ops
                 /\ ex' = [ex EXCEPT !.oss = oss]
            ELSE /\ ops' = (IF call.store_oss THEN Append(ops, "upload_oss")
                            ELSE ops)
                           \o (IF ~call.store_local THEN <<"unlink">> ELSE <<>>)
                 /\ ex' = [ex EXCEPT !.oss = oss,
                             !.file = IF call.store_local THEN "present"
                                      ELSE "deleted"]
                 /\ Return([ success |-> TRUE,
                             file_path |-> IF call.store_local THEN "F" ELSE ".",
                             remote_path |-> ex.remote_keep,
                             object_storage_path |-> oss,
                             error |-> "" ])
    /\ UNCHANGED <<inst, call, dump, nonEngineVars>>

(***************************************************************************)
(* Physical backups: _execute_hot_backup, _execute_incremental_backup,     *)
(* _execute_cold_backup.  ex.scratch holds what exists under               *)
(* /tmp/auroravault/<alias> on the MySQL host: "dir" (the target dir),     *)
(* "archive", "base_archive", "base_dir".                                  *)
(***************************************************************************)
\* The remote objects a command creates when it exits 0.
made(out, what) == IF out = "ok" THEN what ELSE {}

\* _execute_hot_backup: data_dir check, mkdir -p root, mkdir -p target dir.
execute_hot_backup_prepare ==
    /\ epc = "hot"
    /\ IF ~inst.data_dir
       THEN /\ Return(Fail("no_data_dir"))
            /\ UNCHANGED <<ops, ex>>
       ELSE \E m1 \in RunOutcomes, m2 \in RunOutcomes :
              IF m1 = "raise"
              THEN /\ ops' = Append(ops, "mkdir")
                   /\ Return(Caught)
                   /\ UNCHANGED ex
              ELSE /\ ops' = ops \o <<"mkdir", "mkdir">>
                   /\ ex' = [ex EXCEPT !.scratch = @ \cup made(m2, {"dir"})]
                   /\ IF m2 = "raise" THEN Return(Caught)
                      ELSE /\ epc' = "xtrabackup"
                           /\ UNCHANGED result
    /\ UNCHANGED <<inst, call, dump, nonEngineVars>>

\* _execute_incremental_backup: base and data_dir checks, mkdir -p root,
\* upload of the base archive, tar -x of it, mkdir -p target dir.
\* A base whose file_path is '.' is no file: its upload raises.
execute_incremental_backup_prepare ==
    /\ epc = "incremental"
    /\ IF call.base_backup \in {"none", ""}
       THEN /\ Return(Fail("missing_base"))
            /\ UNCHANGED <<ops, ex>>
       ELSE IF ~inst.data_dir
       THEN /\ Return(Fail("no_data_dir"))
            /\ UNCHANGED <<ops, ex>>
       ELSE \E m1 \in RunOutcomes,
               up \in (IF call.base_backup = "." THEN {"raise"} ELSE XferOutcomes),
               xt \in RunOutcomes, m2 \in RunOutcomes :
              IF m1 = "raise"
              THEN /\ ops' = Append(ops, "mkdir")
                   /\ Return(Caught)
                   /\ UNCHANGED ex
              ELSE IF up = "raise"
              THEN /\ ops' = ops \o <<"mkdir", "upload_base">>
                   /\ Return(Caught)
                   /\ UNCHANGED ex
              ELSE IF xt = "raise"
              THEN /\ ops' = ops \o <<"mkdir", "upload_base", "extract">>
                   /\ ex' = [ex EXCEPT !.scratch = @ \cup {"base_archive"}]
                   /\ Return(Caught)
              ELSE /\ ops' = ops \o <<"mkdir", "upload_base", "extract", "mkdir">>
                   /\ ex' = [ex EXCEPT !.scratch = @ \cup {"base_archive"}
                                 \cup made(xt, {"base_dir"}) \cup made(m2, {"dir"})]
                   /\ IF m2 = "raise" THEN Return(Caught)
                      ELSE /\ epc' = "xtrabackup"
                           /\ UNCHANGED result
    /\ UNCHANGED <<inst, call, dump, nonEngineVars>>

\* hot / incremental: run xtrabackup; a non-zero exit returns the failure.
execute_physical_backup_xtrabackup ==
    /\ epc = "xtrabackup"
    /\ \E out \in RunOutcomes :
         /\ ops' = Append(ops, "xtrabackup")
         /\ IF out = "nonzero" THEN Return(Fail("backup_tool_failed"))
            ELSE IF out = "raise" THEN Return(Caught)
            ELSE /\ epc' = "archive"
                 /\ UNCHANGED result
    /\ UNCHANGED <<inst, call, ex, dump, nonEngineVars>>

\* BackupExecutor._archive_remote_dir: tar; a non-zero exit raises.
archive_remote_dir ==
    /\ epc = "archive"
    /\ \E out \in RunOutcomes :
         /\ ops' = Append(ops, "tar")
         /\ IF out = "ok"
            THEN /\ ex' = [ex EXCEPT !.scratch = @ \cup {"archive"}]
                 /\ epc' = "keep"
                 /\ UNCHANGED result
            ELSE /\ Return(Caught)
                 /\ UNCHANGED ex
    /\ UNCHANGED <<inst, call, dump, nonEngineVars>>

\* _execute_cold_backup: data_dir check, stop/start command selection by
\* deployment_type (no check of the container or service name), mkdir root.
execute_cold_backup_prepare ==
    /\ epc = "cold"
    /\ IF ~inst.data_dir
       THEN /\ Return(Fail("no_data_dir"))
            /\ UNCHANGED <<ops>>
       ELSE \E m1 \in RunOutcomes :
              /\ ops' = Append(ops, "mkdir")
              /\ IF m1 = "raise" THEN Return(Caught)
                 ELSE /\ epc' = "cold_stop"
                      /\ UNCHANGED result
    /\ UNCHANGED <<inst, call, ex, dump, nonEngineVars>>

\* The stop step without the finally clause: a failed stop returns at once.
execute_cold_backup_stop_no_finally ==
    /\ epc = "cold_stop"
    /\ \E out \in RunOutcomes :
         /\ ops' = Append(ops, "stop")
         /\ ex' = [ex EXCEPT !.stop_code = out]
         /\ IF out = "ok"
            THEN /\ epc' = "cold_tar"
                 /\ UNCHANGED result
            ELSE IF out = "nonzero" THEN Return(Fail("stop_failed"))
            ELSE Return(Caught)
    /\ UNCHANGED <<inst, call, dump, nonEngineVars>>

\* try: executor.run(stop_cmd); a non-zero exit returns, through finally.
execute_cold_backup_stop ==
    /\ epc = "cold_stop"
    /\ \E out \in RunOutcomes :
         /\ ops' = Append(ops, "stop")
         /\ ex' = [ex EXCEPT !.pending = IF out = "ok" THEN "none"
                                         ELSE IF out = "nonzero" THEN "stop_failed"
                                         ELSE "raise",
                             !.stop_code = out]
         /\ epc' = IF out = "ok" THEN "cold_tar" ELSE "cold_start"
    /\ UNCHANGED <<inst, call, dump, result, nonEngineVars>>

\* executor.run(tar_cmd); a non-zero exit returns, through finally.
execute_cold_backup_tar ==
    /\ epc = "cold_tar"
    /\ \E out \in RunOutcomes :
         /\ ops' = Append(ops, "tar")
         /\ ex' = [ex EXCEPT !.pending = IF out = "ok" THEN "none"
                                         ELSE IF out = "nonzero" THEN "tar_failed"
                                         ELSE "raise",
                             !.scratch = @ \cup made(out, {"archive"})]
         /\ epc' = "cold_start"
    /\ UNCHANGED <<inst, call, dump, result, nonEngineVars>>

\* finally: executor.run(start_cmd), then the pending return or exception.
execute_cold_backup_start ==
    /\ epc = "cold_start"
    /\ \E out \in RunOutcomes :
         /\ ops' = Append(ops, "start")
         /\ IF out = "raise" \/ ex.pending = "raise" THEN Return(Caught)
            ELSE IF ex.pending # "none" THEN Return(Fail(ex.pending))
            ELSE /\ epc' = "keep"
                 /\ UNCHANGED result
    /\ UNCHANGED <<inst, call, ex, dump, nonEngineVars>>

\* remote_keep_path = _get_remote_backup_path(...) if store_remote and not
\* remote_config (same code in the three physical methods).
execute_physical_backup_keep_path ==
    /\ epc = "keep"
    /\ IF call.store_remote /\ call.remote_config = "none"
       THEN \E mk \in RunOutcomes :
              /\ ops' = IF remote_root /\ inst.ssh THEN Append(ops, "mkdir")
                        ELSE ops
              /\ IF get_remote_backup_path(mk) = "raise"
                 THEN /\ Return(Caught)
                      /\ UNCHANGED ex
                 ELSE /\ ex' = [ex EXCEPT !.remote_keep =
                                   (get_remote_backup_path(mk) = "path")]
                      /\ epc' = IF get_remote_backup_path(mk) = "path"
                                THEN "move" ELSE "download"
                      /\ UNCHANGED result
       ELSE /\ epc' = "download"
            /\ UNCHANGED <<ops, ex, result>>
    /\ UNCHANGED <<inst, call, dump, nonEngineVars>>

\* if remote_keep_path: mv archive keep_path; a non-zero exit returns.
execute_physical_backup_move ==
    /\ epc = "move"
    /\ \E out \in RunOutcomes :
         /\ ops' = Append(ops, "mv")
         /\ IF out = "nonzero"
            THEN /\ Return(Fail("remote_keep_failed"))
                 /\ UNCHANGED ex
            ELSE IF out = "raise"
            THEN /\ Return(Caught)
                 /\ UNCHANGED ex
            ELSE /\ ex' = [ex EXCEPT !.scratch = @ \ {"archive"}]
                 /\ epc' = "download"
                 /\ UNCHANGED result
    /\ UNCHANGED <<inst, call, dump, nonEngineVars>>

\* What rm -rf names after the download, per method.
scratch_removed ==
    CASE call.backup_type = "hot" -> {"dir"}
      [] call.backup_type = "incremental" -> {"dir", "base_dir", "base_archive"}
      [] OTHER -> {}

\* executor.download, rm -rf of the scratch directories (hot, incremental),
\* rm -f of the archive when it was not moved to a keep path.
execute_physical_backup_download ==
    /\ epc = "download"
    /\ \E dl \in XferOutcomes, r1 \in RunOutcomes, r2 \in RunOutcomes :
         IF dl = "raise"
         THEN /\ ops' = Append(ops, "download")
              /\ Return(Caught)
              /\ UNCHANGED ex
         ELSE IF call.backup_type # "cold" /\ r1 = "raise"
         THEN /\ ops' = ops \o <<"download", "rm_dirs">>
              /\ ex' = [ex EXCEPT !.file = "present"]
              /\ Return(Caught)
         ELSE /\ ops' = ops \o <<"download">>
                   \o (IF call.backup_type # "cold" THEN <<"rm_dirs">> ELSE <<>>)
                   \o (IF ~ex.remote_keep THEN <<"rm_archive">> ELSE <<>>)
              /\ ex' = [ex EXCEPT
                   !.file = "present",
                   !.scratch = (@ \ made(r1, scratch_removed))
                               \ (IF ~ex.remote_keep THEN made(r2, {"archive"})
                                  ELSE {})]
              /\ IF ~ex.remote_keep /\ r2 = "raise" THEN Return(Caught)
                 ELSE /\ epc' = "place"
                      /\ UNCHANGED result
    /\ UNCHANGED <<inst, call, dump, nonEngineVars>>

\* Upload to the remote server (exceptions only logged), upload to object
\* storage, unlink of the local copy when store_local is false, and the
\* success dict the three physical methods end with.
execute_physical_backup_place ==
    /\ epc = "place"
    /\ \E mk \in RunOutcomes, up \in XferOutcomes,
          oss \in (IF call.store_oss THEN BOOLEAN ELSE {FALSE}) :
         LET uploads == call.store_remote /\ call.remote_config # "none"
             keep == IF uploads THEN upload_to_remote(mk, up) = "path"
                     ELSE ex.remote_keep
         IN /\ ops' = ops
                  \o (IF uploads THEN <<"upload_remote">> ELSE <<>>)
                  \o (IF call.store_oss THEN <<"upload_oss">> ELSE <<>>)
                  \o (IF ~call.store_local THEN <<"unlink">> ELSE <<>>)
            /\ ex' = [ex EXCEPT !.remote_keep = keep, !.oss = oss,
                        !.file = IF call.store_local THEN "present"
                                 ELSE "deleted"]
            /\ Return([ success |-> TRUE,
                        file_path |-> IF call.store_local THEN "F" ELSE ".",
                        remote_path |-> keep,
                        object_storage_path |-> oss,
                        error |-> "" ])
    /\ UNCHANGED <<inst, call, dump, nonEngineVars>>

(***************************************************************************)
(* The engine called directly.                                             *)
(***************************************************************************)
EngineStep ==
    \/ execute_backup_entry
    \/ execute_logical_backup_dump
    \/ execute_logical_backup_remote
    \/ execute_logical_backup_finish
    \/ execute_hot_backup_prepare
    \/ execute_incremental_backup_prepare
    \/ execute_physical_backup_xtrabackup
    \/ archive_remote_dir
    \/ execute_cold_backup_prepare
    \/ execute_cold_backup_stop
    \/ execute_cold_backup_tar
    \/ execute_cold_backup_start
    \/ execute_physical_backup_keep_path
    \/ execute_physical_backup_move
    \/ execute_physical_backup_download
    \/ execute_physical_backup_place

NoTask == [status |-> "none"]

RestoreIdle ==
    /\ rreq = [via |-> "none"]
    /\ rpc = "idle"
    /\ rlog = <<>>
    /\ rresp = "none"

OneOffIdle == cresp = "none"

NoSweep == [ kind |-> "none", instance |-> 0, todo |-> <<>>, step |-> "idle",
             deleted_count |-> 0, log |-> <<>>, run |-> 0, prev |-> 0,
             before |-> <<>> ]

RetentionIdle ==
    /\ store = <<>>
    /\ sw = NoSweep

NamingIdle == nm = [step |-> "idle"]

nonNamingVars == <<engineVars, jobVars, restoreVars, oneoffVars, retentionVars,
                   dispatchVars, tempVars, beatVars>>

nonRetentionVars == <<engineVars, jobVars, restoreVars, oneoffVars, namingVars,
                      dispatchVars, tempVars, beatVars>>

NoDispatch == [ queue |-> <<>>, running |-> <<>>, sent |-> 0 ]

DispatchIdle == disp = NoDispatch

TempIdle == cr = [ pc |-> <<>> ]

BeatIdle == beat = [ synced |-> FALSE ]

JobIdle ==
    /\ job = [kind |-> "none"]
    /\ jpc = "idle"
    /\ retries = 0
    /\ records = <<>>
    /\ dbi = 0
    /\ engine_calls = <<>>
    /\ countdowns = <<>>
    /\ runs = 0
    /\ task = NoTask
    /\ ret = "none"

EngineIdle ==
    /\ call = NoCall
    /\ epc = "idle"
    /\ ops = <<>>
    /\ ex = ExInit
    /\ dump = NoDump
    /\ result = NoResult

InitEngine ==
    /\ inst \in Instances
    /\ EngineIdle
    /\ JobIdle
    /\ RestoreIdle
    /\ OneOffIdle
    /\ RetentionIdle
    /\ NamingIdle
    /\ DispatchIdle
    /\ TempIdle
    /\ BeatIdle

NextEngine == DirectCall \/ EngineStep

SpecEngine == InitEngine /\ [][NextEngine]_vars

(***************************************************************************)
(* Job orchestration: tasks.py                                             *)
(***************************************************************************)
\* @shared_task(bind=True, max_retries=3)
max_retries == 3

\* Longest database list of a strategy or one-off task.
MaxDatabases == 2

DatabasePool == <<"shop", "crm", "hr", "ops">>

DatabaseLists == { SubSeq(DatabasePool, 1, n) : n \in 0..MaxDatabases }

StorageModes == {"default", "mysql_host", "remote_server", "oss"}

\* A BackupStrategy or BackupOneOffTask row, as far as the core reads it.
\* The store_* columns are independent of storage_mode in the schema.
RowJobs(kind) ==
    [ kind : {kind}, backup_type : BackupTypes, databases : DatabaseLists,
      database_name : {""}, storage_mode : StorageModes,
      store_local : BOOLEAN, store_remote : BOOLEAN, store_oss : BOOLEAN,
      retention_days : IF kind = "strategy" THEN BOOLEAN ELSE {FALSE} ]

\* execute_backup_task(instance_id=..., database_name=..., backup_type=...):
\* the keyword arguments of a manual backup; the storage arguments keep the
\* defaults of _execute_backup_core.
InstanceJobs ==
    [ kind : {"instance"}, backup_type : BackupTypes \cup {"none"},
      databases : {<<>>}, database_name : {"", "shop"},
      storage_mode : {"none"},
      store_local : {TRUE}, store_remote : {FALSE}, store_oss : {FALSE},
      retention_days : {FALSE} ]

Jobs == RowJobs("strategy") \cup RowJobs("oneoff") \cup InstanceJobs

NoRecord == 0

\* BackupRecord.objects.create(..., status='running', ...)
new_record(backup_type, base) ==
    [ status |-> "running", backup_type |-> backup_type, base_backup |-> base,
      file_path |-> "", remote_path |-> FALSE, object_storage_path |-> FALSE,
      end_time |-> FALSE, error_message |-> "", of_job |-> TRUE ]

\* A record an earlier job left behind.
prior_record(status, backup_type, file_path) ==
    [ status |-> status, backup_type |-> backup_type, base_backup |-> NoRecord,
      file_path |-> file_path, remote_path |-> (file_path = "."),
      object_storage_path |-> FALSE, end_time |-> TRUE,
      error_message |-> "", of_job |-> FALSE ]

PriorRecords ==
    { <<>>,
      << prior_record("success", "hot", "F") >>,
      << prior_record("success", "hot", ".") >>,
      << prior_record("failed", "hot", "") >> }

\* BackupRecord.objects.filter(instance=instance,
\*     backup_type__in=['hot', 'incremental'], status='success')
\*     .order_by('-created_at').first()
base_backup_of(recs) ==
    LET q == { i \in DOMAIN recs :
                 /\ recs[i].backup_type \in {"hot", "incremental"}
                 /\ recs[i].status = "success" }
    IN IF q = {} THEN NoRecord
       ELSE CHOOSE i \in q : \A k \in q : k <= i

\* Step 1 of _execute_backup_core: the strategy row, the explicit arguments
\* of a manual backup, or the arguments execute_oneoff_backup_task builds
\* from the task row.
resolve_config(j) ==
    [ databases |-> IF j.databases # <<>> THEN j.databases
                    ELSE IF j.database_name # "" THEN <<j.database_name>>
                    ELSE <<>>,
      backup_type |-> IF j.backup_type = "none" THEN "full" ELSE j.backup_type,
      storage_mode |-> j.storage_mode,
      store_local |-> j.store_local,
      store_remote |-> j.store_remote,
      store_oss |-> j.store_oss,
      remote_config |-> (j.store_remote /\ j.storage_mode = "remote_server"),
      oss_config |-> j.store_oss ]

\* The core passing the stored store_* flags on, whatever the mode.
normalise_keeps_flags(r) ==
    [ store_local |-> r.store_local, store_remote |-> r.store_remote,
      store_oss |-> r.store_oss,
      error |-> \/ (r.storage_mode = "remote_server" /\ ~r.remote_config)
                \/ (r.storage_mode = "oss" /\ ~r.oss_config) ]

\* Normalisation of the storage mode: one target per run, or ValueError.
normalise(r) ==
    CASE r.storage_mode = "default" ->
           [ store_local |-> TRUE, store_remote |-> FALSE, store_oss |-> FALSE,
             error |-> FALSE ]
      [] r.storage_mode = "mysql_host" ->
           [ store_local |-> FALSE, store_remote |-> TRUE, store_oss |-> FALSE,
             error |-> FALSE ]
      [] r.storage_mode = "remote_server" ->
           [ store_local |-> FALSE, store_remote |-> TRUE, store_oss |-> FALSE,
             error |-> ~r.remote_config ]
      [] r.storage_mode = "oss" ->
           [ store_local |-> FALSE, store_remote |-> FALSE, store_oss |-> TRUE,
             error |-> ~r.oss_config ]
      [] OTHER ->
           [ store_local |-> r.store_local, store_remote |-> r.store_remote,
             store_oss |-> r.store_oss, error |-> FALSE ]

\* executor.execute_backup(database_name=db, ..., base_backup=base_backup, ...)
place_call(r, n, base, db) ==
    /\ call' = [ backup_type |-> r.backup_type,
                 database_name |-> db,
                 store_local |-> n.store_local,
                 store_remote |-> n.store_remote,
                 store_oss |-> n.store_oss,
                 remote_storage_path |->
                     (r.storage_mode \in {"mysql_host", "remote_server"}),
                 remote_config |-> IF r.remote_config THEN "ssh" ELSE "none",
                 base_backup |-> IF base = NoRecord THEN "none"
                                 ELSE records[base].file_path ]
    /\ epc' = "call"
    /\ ops' = <<>>
    /\ ex' = ExInit
    /\ dump' = NoDump
    /\ result' = NoResult
    /\ engine_calls' = Append(engine_calls, db)
    /\ UNCHANGED inst

\* The except blocks retrying while retries <= max_retries.
task_failed_retry_le(recs, backup_record, msg) ==
    /\ records' = recs
    /\ task' = IF job.kind = "oneoff"
               THEN [task EXCEPT !.status = "failed", !.started_at = TRUE,
                                 !.finished_at = TRUE, !.error_message = msg]
               ELSE task
    /\ IF retries <= max_retries
       THEN /\ countdowns' = Append(countdowns, 60 * (retries + 1))
            /\ jpc' = "retry"
            /\ UNCHANGED ret
       ELSE /\ jpc' = "finished"
            /\ ret' = "failure"
            /\ UNCHANGED countdowns

\* The except blocks of execute_backup_task and execute_oneoff_backup_task.
\* recs is the record table when the exception arrives; backup_record is the
\* task body's local of that name, bound only by the return of
\* _execute_backup_core.  execute_oneoff_backup_task has set started_at before
\* its try block.
task_failed(recs, backup_record, msg) ==
    /\ records' = IF job.kind # "oneoff" /\ backup_record # NoRecord
                  THEN [recs EXCEPT ![backup_record] =
                          [@ EXCEPT !.status = "failed", !.end_time = TRUE,
                                    !.error_message = msg]]
                  ELSE recs
    /\ task' = IF job.kind = "oneoff"
               THEN [task EXCEPT !.status = "failed", !.started_at = TRUE,
                                 !.finished_at = TRUE,
                                 !.error_message = msg,
                                 !.backup_record =
                                     IF backup_record # NoRecord
                                     THEN backup_record ELSE @]
               ELSE task
    /\ IF retries < max_retries
       THEN /\ countdowns' = Append(countdowns, 60 * (retries + 1))
            /\ jpc' = "retry"
            /\ UNCHANGED ret
       ELSE /\ jpc' = "finished"
            /\ ret' = "failure"
            /\ UNCHANGED countdowns

\* The task body reusing the record of the previous attempt, reset to
\* 'running', instead of creating one.
core_begin_reuse_record ==
    LET r == resolve_config(job)
        n == normalise(r)
        base == IF r.backup_type = "incremental" THEN base_backup_of(records)
                ELSE NoRecord
        own == { i \in DOMAIN records : records[i].of_job }
    IN /\ runs' = runs + 1
       /\ IF n.error
          THEN /\ task_failed(records, NoRecord, "config_missing")
               /\ UNCHANGED <<dbi, engine_calls, engineVars>>
          ELSE IF r.backup_type = "incremental" /\ base = NoRecord
          THEN /\ task_failed(records, NoRecord, "missing_base")
               /\ UNCHANGED <<dbi, engine_calls, engineVars>>
          ELSE /\ records' = IF own = {}
                             THEN Append(records, new_record(r.backup_type, base))
                             ELSE [records EXCEPT ![Len(records)] =
                                      new_record(r.backup_type, @.base_backup)]
               /\ dbi' = 1
               /\ place_call(r, n, base,
                             IF r.databases # <<>> THEN r.databases[1]
                             ELSE job.database_name)
               /\ jpc' = "engine"
               /\ task' = IF job.kind = "oneoff"
                          THEN [task EXCEPT !.status = "running",
                                            !.started_at = TRUE]
                          ELSE task
               /\ UNCHANGED <<countdowns, ret>>

\* The task body from its entry to the first execute_backup call: load the
\* row, resolve and normalise the configuration, find the base of an
\* incremental backup, create the running record.
core_begin ==
    LET r == resolve_config(job)
        n == normalise(r)
        base == IF r.backup_type = "incremental" THEN base_backup_of(records)
                ELSE NoRecord
    IN /\ runs' = runs + 1
       /\ IF n.error
          THEN /\ task_failed(records, NoRecord, "config_missing")
               /\ UNCHANGED <<dbi, engine_calls, engineVars>>
          ELSE IF r.backup_type = "incremental" /\ base = NoRecord
          THEN /\ task_failed(records, NoRecord, "missing_base")
               /\ UNCHANGED <<dbi, engine_calls, engineVars>>
          ELSE /\ records' = Append(records, new_record(r.backup_type, base))
               /\ dbi' = 1
               /\ place_call(r, n, base,
                             IF r.databases # <<>> THEN r.databases[1]
                             ELSE job.database_name)
               /\ jpc' = "engine"
               /\ task' = IF job.kind = "oneoff"
                          THEN [task EXCEPT !.status = "running",
                                            !.started_at = TRUE]
                          ELSE task
               /\ UNCHANGED <<countdowns, ret>>

\* The task body after an execute_backup call returned: raise on a failed
\* result, call again for the next database, or save the record as success,
\* enqueue the retention sweep (enq) and, for a one-off task, save the task
\* row (sv); an exception of either reaches the except block.  Only the
\* task-row save runs after _execute_backup_core returned, so only there is
\* backup_record bound when the except block runs.
core_continue ==
    LET r == resolve_config(job)
        n == normalise(r)
        cur == Len(records)
    IN IF ~result.success
       THEN /\ task_failed(records, NoRecord, result.error)
            /\ UNCHANGED <<dbi, engine_calls, engineVars>>
       ELSE IF dbi < Len(r.databases)
       THEN /\ dbi' = dbi + 1
            /\ place_call(r, n, records[cur].base_backup, r.databases[dbi + 1])
            /\ UNCHANGED <<records, task, jpc, countdowns, ret>>
       ELSE \E enq \in (IF job.kind = "strategy" /\ job.retention_days
                        THEN XferOutcomes ELSE {"ok"}),
               sv \in (IF job.kind = "oneoff" THEN XferOutcomes ELSE {"ok"}) :
              LET saved == [records EXCEPT ![cur] =
                              [@ EXCEPT !.status = "success",
                                        !.end_time = TRUE,
                                        !.file_path = result.file_path,
                                        !.remote_path = result.remote_path,
                                        !.object_storage_path =
                                            result.object_storage_path]]
              IN /\ IF enq = "raise" \/ sv = "raise"
                    THEN task_failed(saved,
                                     IF sv = "raise" THEN cur ELSE NoRecord,
                                     "exception")
                    ELSE /\ records' = saved
                         /\ task' = IF job.kind = "oneoff"
                                    THEN [task EXCEPT !.status = "success",
                                                      !.finished_at = TRUE,
                                                      !.backup_record = cur,
                                                      !.error_message = ""]
                                    ELSE task
                         /\ jpc' = "finished"
                         /\ ret' = "success"
                         /\ UNCHANGED countdowns
                 /\ UNCHANGED <<dbi, engine_calls, engineVars>>

\* execute_backup_task, first part.
execute_backup_task_begin ==
    /\ jpc = "queued"
    /\ UNCHANGED <<job, retries, nonJobVars>>
    /\ job.kind \in {"strategy", "instance"}
    /\ core_begin

\* execute_backup_task, after execute_backup returned.
execute_backup_task_continue ==
    /\ jpc = "engine"
    /\ epc = "done"
    /\ job.kind \in {"strategy", "instance"}
    /\ core_continue
    /\ UNCHANGED <<job, retries, runs, nonJobVars>>

\* execute_oneoff_backup_task, first part.
execute_oneoff_backup_task_begin ==
    /\ jpc = "queued"
    /\ UNCHANGED <<job, retries, nonJobVars>>
    /\ job.kind = "oneoff"
    /\ core_begin

\* execute_oneoff_backup_task, after execute_backup returned.
execute_oneoff_backup_task_continue ==
    /\ jpc = "engine"
    /\ epc = "done"
    /\ job.kind = "oneoff"
    /\ core_continue
    /\ UNCHANGED <<job, retries, runs, nonJobVars>>

\* The queue delivers the retry that self.retry() scheduled.
retry_delivered ==
    /\ jpc = "retry"
    /\ retries' = retries + 1
    /\ jpc' = "queued"
    /\ UNCHANGED <<job, records, dbi, engine_calls, countdowns, runs, task, ret,
                   engineVars, nonJobVars>>

\* The instance the jobs run against: data directory, container name, SSH
\* and remote root all configured.
JobInstance ==
    [ data_dir |-> TRUE, deployment_type |-> "docker",
      docker_container_name |-> TRUE, ssh |-> TRUE, remote_backup_root |-> TRUE ]

InitJob ==
    /\ inst = JobInstance
    /\ EngineIdle
    /\ job \in Jobs
    /\ jpc = "queued"
    /\ retries = 0
    /\ records \in (IF job.backup_type = "incremental" THEN PriorRecords
                     ELSE {<<>>})
    /\ dbi = 0
    /\ engine_calls = <<>>
    /\ countdowns = <<>>
    /\ runs = 0
    /\ task = IF job.kind = "oneoff"
              THEN [ status |-> "pending", started_at |-> FALSE,
                     finished_at |-> FALSE, error_message |-> "",
                     backup_record |-> NoRecord ]
              ELSE NoTask
    /\ ret = "none"
    /\ RestoreIdle
    /\ OneOffIdle
    /\ RetentionIdle
    /\ NamingIdle
    /\ DispatchIdle
    /\ TempIdle
    /\ BeatIdle

JobStep ==
    \/ execute_backup_task_begin
    \/ execute_backup_task_continue
    \/ execute_oneoff_backup_task_begin
    \/ execute_oneoff_backup_task_continue
    \/ retry_delivered

NextJob == JobStep \/ EngineStep

SpecJob == InitJob /\ [][NextJob]_vars

(***************************************************************************)
(* Restore from a backup record: BackupRecordViewSet.restore (views.py)    *)
(* and BackupRecordAdmin.restore_view (admin.py).                          *)
(***************************************************************************)
\* Names _infer_backup_filenames returns for a record, at most.
MaxFilenames == 2

\* The BackupRecord a restore names.  local is what record.file_path points
\* at: nothing recorded, a file that is gone, a file, or a directory.
\* filenames is the number of names _infer_backup_filenames returns;
\* remote_dir says remote_path has no suffix, object_dir that
\* object_storage_path ends with '/'.
RestoreRecords ==
    { r \in [ status : {"pending", "running", "success", "failed"},
              backup_type : BackupTypes,
              local : {"", "missing", "file", "dir"},
              remote_path : BOOLEAN,
              object_storage_path : BOOLEAN,
              filenames : 1..MaxFilenames,
              remote_dir : BOOLEAN,
              object_dir : BOOLEAN ] :
        /\ r.remote_dir => r.remote_path
        /\ r.object_dir => r.object_storage_path }

\* POST /records/{id}/restore/ with a body, or the admin restore link.
RestoreRequests ==
    [ via : {"api"}, confirm : BOOLEAN, record : RestoreRecords ]
    \cup [ via : {"admin"}, confirm : {TRUE}, record : RestoreRecords ]

Respond(msg) ==
    /\ rresp' = msg
    /\ rpc' = "done"

\* restore without the backup_type check.
restore_no_physical_check ==
    /\ rpc = "received"
    /\ rreq.via = "api"
    /\ IF ~rreq.confirm THEN Respond("invalid_request")
       ELSE IF rreq.record.status # "success" THEN Respond("not_success")
       ELSE /\ rpc' = "prepare_local"
            /\ UNCHANGED rresp
    /\ UNCHANGED <<rreq, rlog, nonRestoreVars>>

\* BackupRecordViewSet.restore up to _prepare_backup_download_path:
\* RestoreSerializer (confirm must be true), status check, physical check.
restore ==
    /\ rpc = "received"
    /\ rreq.via = "api"
    /\ IF ~rreq.confirm THEN Respond("invalid_request")
       ELSE IF rreq.record.status # "success" THEN Respond("not_success")
       ELSE IF rreq.record.backup_type \in PhysicalTypes
       THEN Respond("physical_offline_only")
       ELSE /\ rpc' = "prepare_local"
            /\ UNCHANGED rresp
    /\ UNCHANGED <<rreq, rlog, nonRestoreVars>>

\* BackupRecordAdmin.restore_view up to _prepare_download_path.
restore_view ==
    /\ rpc = "received"
    /\ rreq.via = "admin"
    /\ IF rreq.record.status # "success" THEN Respond("not_success")
       ELSE IF rreq.record.backup_type \in PhysicalTypes
       THEN Respond("physical_offline_only")
       ELSE /\ rpc' = "prepare_local"
            /\ UNCHANGED rresp
    /\ UNCHANGED <<rreq, rlog, nonRestoreVars>>

\* remote_candidates of _prepare_backup_download_path: remote_path itself
\* when it has a suffix, else remote_path/name for every inferred name.  The
\* admin helper downloads remote_path only.
remote_candidates(req) ==
    IF ~req.record.remote_path THEN 0
    ELSE IF req.via = "api" /\ req.record.remote_dir THEN req.record.filenames
    ELSE 1

\* object_candidates: path + name for every inferred name when the path ends
\* with '/', else the path.  The admin helper downloads the path only.
object_candidates(req) ==
    IF ~req.record.object_storage_path THEN 0
    ELSE IF req.via = "api" /\ req.record.object_dir THEN req.record.filenames
    ELSE 1

\* Downloads of one kind attempted so far.
Tried(log, op) == Cardinality({ p \in DOMAIN log : log[p].op = op })

\* A download returns with the file in place, returns without it, or raises.
DownloadOutcomes == {"ok", "absent", "raise"}

\* _prepare_backup_download_path / _prepare_download_path: the local path.
\* The API helper also looks for the inferred names inside a directory.
prepare_download_path_local ==
    /\ rpc = "prepare_local"
    /\ IF rreq.record.local = "file"
       THEN rpc' = "execute"
       ELSE IF rreq.record.local = "dir" /\ rreq.via = "api"
       THEN \E found \in BOOLEAN :
              rpc' = IF found THEN "execute" ELSE "prepare_remote"
       ELSE rpc' = "prepare_remote"
    /\ UNCHANGED <<rreq, rlog, rresp, nonRestoreVars>>

\* ... then the remote candidates, one download per step, all inside one
\* try: an exception is logged and ends the remote part.
prepare_download_path_remote ==
    /\ rpc = "prepare_remote"
    /\ IF remote_candidates(rreq) > 0
       THEN \E dl \in DownloadOutcomes :
              LET k == Tried(rlog, "download_remote") + 1
              IN /\ rlog' = Append(rlog, [op |-> "download_remote", k |-> k,
                                          out |-> dl])
                 /\ rpc' = IF dl = "ok" THEN "execute"
                           ELSE IF dl = "raise" \/ k = remote_candidates(rreq)
                           THEN "prepare_oss"
                           ELSE "prepare_remote"
                 /\ UNCHANGED rresp
       ELSE /\ rpc' = "prepare_oss"
            /\ UNCHANGED <<rlog, rresp>>
    /\ UNCHANGED <<rreq, nonRestoreVars>>

\* ... then the object-storage candidates, again inside one try; with
\* nothing found the API answers 404 and the admin helper raises
\* RuntimeError, which restore_view reports.
prepare_download_path_oss ==
    /\ rpc = "prepare_oss"
    /\ IF object_candidates(rreq) > 0
       THEN \E dl \in DownloadOutcomes :
              LET k == Tried(rlog, "download_oss") + 1
              IN /\ rlog' = Append(rlog, [op |-> "download_oss", k |-> k,
                                          out |-> dl])
                 /\ IF dl = "ok"
                    THEN /\ rpc' = "execute"
                         /\ UNCHANGED rresp
                    ELSE IF dl = "raise" \/ k = object_candidates(rreq)
                    THEN Respond(IF rreq.via = "api" THEN "not_found"
                                 ELSE "restore_failed")
                    ELSE UNCHANGED <<rpc, rresp>>
       ELSE /\ Respond(IF rreq.via = "api" THEN "not_found"
                       ELSE "restore_failed")
            /\ UNCHANGED rlog
    /\ UNCHANGED <<rreq, nonRestoreVars>>

\* RestoreExecutor(record.instance).execute_restore(...), and the removal of
\* a downloaded temporary file (in finally for the API; skipped by the admin
\* view when the executor raised).
execute_restore ==
    /\ rpc = "execute"
    /\ \E out \in RunOutcomes :
         /\ rlog' = Append(rlog, [op |-> "RestoreExecutor", k |-> 0,
                                  out |-> out])
                    \o (IF rlog # <<>> /\ (rreq.via = "api" \/ out # "raise")
                        THEN << [op |-> "unlink", k |-> 0, out |-> "ok"] >>
                        ELSE <<>>)
         /\ Respond(IF out = "ok" THEN "restored"
                    ELSE IF out = "nonzero" THEN "restore_error"
                    ELSE "restore_failed")
    /\ UNCHANGED <<rreq, nonRestoreVars>>

InitRestore ==
    /\ inst = JobInstance
    /\ EngineIdle
    /\ JobIdle
    /\ rreq \in RestoreRequests
    /\ rpc = "received"
    /\ rlog = <<>>
    /\ rresp = "none"
    /\ OneOffIdle
    /\ RetentionIdle
    /\ NamingIdle
    /\ DispatchIdle
    /\ TempIdle
    /\ BeatIdle

NextRestore ==
    \/ restore
    \/ restore_view
    \/ prepare_download_path_local
    \/ prepare_download_path_remote
    \/ prepare_download_path_oss
    \/ execute_restore

SpecRestore == InitRestore /\ [][NextRestore]_vars

(***************************************************************************)
(* One-off tasks: the cancel action of BackupOneOffTaskViewSet (views.py)  *)
(* next to the task body that runs the task.                               *)
(***************************************************************************)
\* BackupOneOffTaskViewSet.cancel: POST /oneoff-tasks/{id}/cancel/
cancel ==
    /\ job.kind = "oneoff"
    /\ IF task.status \notin {"pending", "running"}
       THEN /\ cresp' = "rejected"
            /\ UNCHANGED task
       ELSE /\ task' = [task EXCEPT !.status = "canceled"]
            /\ cresp' = "canceled"
    /\ UNCHANGED <<job, jpc, retries, records, dbi, engine_calls, countdowns,
                   runs, ret, engineVars, restoreVars, retentionVars,
                   namingVars, dispatchVars, tempVars, beatVars>>

\* One-off tasks storing on the application host or on the MySQL host, for
\* the whole server.
OneOffJobs ==
    { j \in RowJobs("oneoff") :
        /\ j.databases = <<>>
        /\ j.storage_mode \in {"default", "mysql_host"}
        /\ j.store_local /\ ~j.store_remote /\ ~j.store_oss }

InitOneOff ==
    /\ inst = JobInstance
    /\ EngineIdle
    /\ job \in OneOffJobs
    /\ jpc = "queued"
    /\ retries = 0
    /\ records \in (IF job.backup_type = "incremental"
                    THEN {<<>>, << prior_record("success", "hot", "F") >>}
                    ELSE {<<>>})
    /\ dbi = 0
    /\ engine_calls = <<>>
    /\ countdowns = <<>>
    /\ runs = 0
    /\ task = [ status |-> "pending", started_at |-> FALSE,
                finished_at |-> FALSE, error_message |-> "",
                backup_record |-> NoRecord ]
    /\ ret = "none"
    /\ RestoreIdle
    /\ OneOffIdle
    /\ RetentionIdle
    /\ NamingIdle
    /\ DispatchIdle
    /\ TempIdle
    /\ BeatIdle

OneOffTaskStep ==
    \/ execute_oneoff_backup_task_begin
    \/ execute_oneoff_backup_task_continue
    \/ retry_delivered

NextOneOff == cancel \/ OneOffTaskStep \/ EngineStep

SpecOneOff == InitOneOff /\ [][NextOneOff]_vars

(***************************************************************************)
(* Retention: cleanup_old_backups and check_backup_limits (tasks.py),      *)
(* BackupRecordViewSet.destroy (views.py), over a table of BackupRecord    *)
(* rows.  store[i] is the row with id i, ids in creation order; a deleted  *)
(* row leaves Deleted behind.  file is what record.file_path points at;    *)
(* old says created_at is before the cutoff of the age sweep.              *)
(***************************************************************************)
\* settings.BACKUP_MAX_FILES_PER_INSTANCE
max_files == 1

\* Rows ever created.
MaxRecords == 3

RetentionInstances == {1, 2}

Deleted == [ live |-> FALSE, inst |-> 0, status |-> "deleted",
             backup_type |-> "none", base |-> 0, file |-> "missing",
             old |-> FALSE ]

Live(st) == { i \in DOMAIN st : st[i].live }

\* BackupRecord.objects.filter(status='success'[, instance_id=instance])
SuccessOf(st, instance) ==
    { i \in Live(st) : /\ st[i].status = "success"
                       /\ (instance = 0 \/ st[i].inst = instance) }

\* order_by('-created_at'), the default ordering of BackupRecord.
RECURSIVE NewestFirst(_)
NewestFirst(S) ==
    IF S = {} THEN <<>>
    ELSE LET m == CHOOSE x \in S : \A y \in S : y <= x
         IN <<m>> \o NewestFirst(S \ {m})

\* The base lookup without the instance filter.
latest_base_any_instance(st, instance) ==
    LET q == { i \in SuccessOf(st, 0) :
                 st[i].backup_type \in {"hot", "incremental"} }
    IN IF q = {} THEN 0 ELSE CHOOSE i \in q : \A k \in q : k <= i

\* The base _execute_backup_core finds for an incremental backup of instance.
latest_base(st, instance) ==
    LET q == { i \in SuccessOf(st, instance) :
                 st[i].backup_type \in {"hot", "incremental"} }
    IN IF q = {} THEN 0 ELSE CHOOSE i \in q : \A k \in q : k <= i

\* _execute_backup_core creates the 'running' record of an attempt; an
\* incremental attempt without a base creates none.
create_backup_record ==
    /\ sw.kind = "none"
    /\ Len(store) < MaxRecords
    /\ \E instance \in RetentionInstances,
          backup_type \in {"full", "hot", "incremental"} :
         /\ instance = 2 => backup_type = "hot"
         /\ backup_type = "incremental" => latest_base(store, instance) # 0
         /\ store' = Append(store,
                [ live |-> TRUE, inst |-> instance, status |-> "running",
                  backup_type |-> backup_type,
                  base |-> IF backup_type = "incremental"
                           THEN latest_base(store, instance) ELSE 0,
                  file |-> "missing", old |-> FALSE ])
    /\ UNCHANGED <<sw, nonRetentionVars>>

\* _execute_backup_core saves the record as success; the artifact is kept
\* locally or only elsewhere.  A failed attempt leaves the row as it is.
complete_backup_record ==
    /\ sw.kind = "none"
    /\ \E r \in Live(store), file \in {"present", "missing"} :
         /\ store[r].status = "running"
         /\ store' = [store EXCEPT ![r] = [@ EXCEPT !.status = "success",
                                                    !.file = file]]
    /\ UNCHANGED <<sw, nonRetentionVars>>

\* Time passes: the oldest row not yet before the cutoff gets there.
time_passes ==
    /\ sw.kind = "none"
    /\ \E r \in Live(store) :
         /\ ~store[r].old
         /\ \A k \in Live(store) : k < r => store[k].old
         /\ store' = [store EXCEPT ![r] = [@ EXCEPT !.old = TRUE]]
    /\ UNCHANGED <<sw, nonRetentionVars>>

\* The rows cleanup_old_backups selects: success, created before the cutoff.
expired_records(st, instance) ==
    NewestFirst({ i \in SuccessOf(st, instance) : st[i].old })

\* backups[max_files - 1:], one row too many.
excess_backups_off_by_one(st, instance) ==
    LET backups == NewestFirst(SuccessOf(st, instance))
    IN IF Len(backups) > max_files
       THEN SubSeq(backups, max_files, Len(backups))
       ELSE <<>>

\* The rows check_backup_limits selects: backups[max_files:] when there are
\* more than max_files, newest first.
excess_backups(st, instance) ==
    LET backups == NewestFirst(SuccessOf(st, instance))
    IN IF Len(backups) > max_files
       THEN SubSeq(backups, max_files + 1, Len(backups))
       ELSE <<>>

\* Entry of a sweep: its locals.  log lists what the loop did, in order;
\* prev is deleted_count of the run before, before the table at entry.
Begin(kind, instance, todo, run) ==
    sw' = [ kind |-> kind, instance |-> instance, todo |-> todo,
            step |-> IF todo = <<>> THEN "done" ELSE "unlink",
            deleted_count |-> 0, log |-> <<>>, run |-> run,
            prev |-> sw.deleted_count, before |-> store ]

\* cleanup_old_backups(instance_id, days): the query (instance_id None is 0).
cleanup_old_backups ==
    /\ sw.kind = "none"
    /\ \E instance \in {0} \cup RetentionInstances :
         Begin("age", instance, expired_records(store, instance), 1)
    /\ UNCHANGED <<store, nonRetentionVars>>

\* cleanup_old_backups called again with the same arguments right after it
\* returned.
cleanup_old_backups_again ==
    /\ sw.kind = "age"
    /\ sw.step = "done"
    /\ sw.run = 1
    /\ Begin("age", sw.instance, expired_records(store, sw.instance), 2)
    /\ UNCHANGED <<store, nonRetentionVars>>

\* check_backup_limits(instance_id): the query and the count test.
check_backup_limits ==
    /\ sw.kind = "none"
    /\ \E instance \in RetentionInstances :
         Begin("limit", instance, excess_backups(store, instance), 1)
    /\ UNCHANGED <<store, nonRetentionVars>>

\* BackupRecordViewSet.destroy: DELETE /records/{id}/
destroy ==
    /\ sw.kind = "none"
    /\ \E r \in Live(store) : Begin("destroy", store[r].inst, <<r>>, 1)
    /\ UNCHANGED <<store, nonRetentionVars>>

\* The loop body without its inner try/except: a failed unlink ends the loop.
sweep_unlink_raise_aborts ==
    /\ sw.step = "unlink"
    /\ LET r == Head(sw.todo)
       IN IF store[r].file = "present"
          THEN \E out \in XferOutcomes :
                 /\ store' = IF out = "ok"
                             THEN [store EXCEPT ![r] = [@ EXCEPT !.file = "missing"]]
                             ELSE store
                 /\ sw' = [sw EXCEPT !.step = IF out = "ok" THEN "delete"
                                              ELSE "done",
                                     !.log = Append(@, <<"unlink", r, out>>)]
          ELSE /\ sw' = [sw EXCEPT !.step = "delete"]
               /\ UNCHANGED store
    /\ UNCHANGED <<nonRetentionVars>>

\* Loop body, first half: if record.file_path and os.path.exists(...):
\* try unlink, except: log.
sweep_unlink ==
    /\ sw.step = "unlink"
    /\ LET r == Head(sw.todo)
       IN IF store[r].file = "present"
          THEN \E out \in XferOutcomes :
                 /\ store' = IF out = "ok"
                             THEN [store EXCEPT ![r] = [@ EXCEPT !.file = "missing"]]
                             ELSE store
                 /\ sw' = [sw EXCEPT !.step = "delete",
                                     !.log = Append(@, <<"unlink", r, out>>)]
          ELSE /\ sw' = [sw EXCEPT !.step = "delete"]
               /\ UNCHANGED store
    /\ UNCHANGED <<nonRetentionVars>>

\* The loop body counting a record without deleting its row.
sweep_delete_keeps_row ==
    /\ sw.step = "delete"
    /\ LET r == Head(sw.todo)
       IN /\ UNCHANGED store
          /\ sw' = [sw EXCEPT !.todo = Tail(@),
                              !.step = IF Tail(sw.todo) = <<>> THEN "done"
                                       ELSE "unlink",
                              !.deleted_count = @ + 1,
                              !.log = Append(@, <<"delete", r, "ok">>)]
    /\ UNCHANGED <<nonRetentionVars>>

\* Loop body, second half: record.delete() (base_backup of the rows that
\* reference it is SET_NULL) and deleted_count += 1.
sweep_delete ==
    /\ sw.step = "delete"
    /\ LET r == Head(sw.todo)
       IN /\ store' = [ i \in DOMAIN store |->
                          IF i = r THEN Deleted
                          ELSE IF store[i].base = r
                          THEN [store[i] EXCEPT !.base = 0]
                          ELSE store[i] ]
          /\ sw' = [sw EXCEPT !.todo = Tail(@),
                              !.step = IF Tail(sw.todo) = <<>> THEN "done"
                                       ELSE "unlink",
                              !.deleted_count = @ + 1,
                              !.log = Append(@, <<"delete", r, "ok">>)]
    /\ UNCHANGED <<nonRetentionVars>>

\* The sweep returns its result dict.
sweep_return ==
    /\ sw.step = "done"
    /\ sw' = NoSweep
    /\ UNCHANGED <<store, nonRetentionVars>>

InitRetention ==
    /\ inst = JobInstance
    /\ EngineIdle
    /\ JobIdle
    /\ RestoreIdle
    /\ OneOffIdle
    /\ RetentionIdle
    /\ NamingIdle
    /\ DispatchIdle
    /\ TempIdle
    /\ BeatIdle

NextRetention ==
    \/ create_backup_record
    \/ complete_backup_record
    \/ time_passes
    \/ cleanup_old_backups
    \/ cleanup_old_backups_again
    \/ check_backup_limits
    \/ destroy
    \/ sweep_unlink
    \/ sweep_delete
    \/ sweep_return

SpecRetention == InitRetention /\ [][NextRetention]_vars

(***************************************************************************)
(* Artifact names: the filename BackupExecutor.execute_backup produces     *)
(* (services.py), the paths _execute_backup_core stores in the record      *)
(* (tasks.py) and the names _infer_backup_filenames derives from the       *)
(* record (views.py).  A path is a scheme and its '/'-separated segments.  *)
(***************************************************************************)
\* Offset of TIME_ZONE = 'Asia/Shanghai' from UTC, in seconds.
utc_offset == 28800

\* Seconds between BackupRecord.objects.create and the executor's
\* datetime.now(), at most.
MaxDelay == 1

\* strftime('%Y%m%d_%H%M%S'): one string per second of the wall clock read.
strftime(t) == ToString(t)

\* datetime.now(): naive, in the process time zone.
datetime_now(clock) == clock + utc_offset

\* timezone.now() with USE_TZ: aware, in UTC.
timezone_now(clock) == clock

Aliases == {"db1", "my db"}

\* str.replace(' ', '_') on the names built from an alias.
replace_spaces(a) == IF a = "my db" THEN "my_db" ELSE a

\* execute_backup: f"{alias}_{db_suffix}_{timestamp}.sql"
logical_filename(alias, database_name, timestamp) ==
    alias \o "_" \o (IF database_name # "" THEN database_name ELSE "all")
          \o "_" \o timestamp \o ".sql"

\* _compress_file: Path(str(file_path) + '.gz'), or None when gzip fails.
compress_file(name, ok) == IF ok THEN name \o ".gz" ELSE name

\* _execute_hot_backup and the other physical methods:
\* f"{method}_{alias}_{timestamp}".replace(' ', '_') + '.tar.gz' or '.tar'
archive_name(method, alias, timestamp, compress) ==
    method \o "_" \o replace_spaces(alias) \o "_" \o timestamp
           \o (IF compress THEN ".tar.gz" ELSE ".tar")

NoPath == [ scheme |-> "", segs |-> <<>> ]

\* str(Path('')), what the executor returns as file_path without store_local.
DotPath == [ scheme |-> "", segs |-> <<".">> ]

\* storage_path / filename with storage_path = BACKUP_STORAGE_PATH / alias
local_path(alias, name) ==
    [ scheme |-> "", segs |-> <<"backups", alias, name>> ]

\* _build_remote_path: f"{remote_root}/{safe_alias}/{filename}"
build_remote_path(alias, name) ==
    [ scheme |-> "", segs |-> <<"remote_root", replace_spaces(alias), name>> ]

\* ObjectStorageUploader.upload: f"oss://{bucket}/{alias}/{filename}"
object_path(alias, name) ==
    [ scheme |-> "oss://", segs |-> <<"bucket", alias, name>> ]

\* Path(p).name
PathName(segs) ==
    IF segs = <<>> THEN ""
    ELSE IF segs[Len(segs)] = "." THEN ""
    ELSE segs[Len(segs)]

\* The name _infer_backup_filenames takes from one path field.
name_of(path) ==
    IF /\ path.scheme = "oss://"
       /\ Len(path.segs) > 1
       /\ PathName(Tail(path.segs)) \notin {"", ".", ".."}
    THEN PathName(Tail(path.segs))
    ELSE PathName(path.segs)

RECURSIVE unique(_)
unique(names) ==
    IF names = <<>> THEN <<>>
    ELSE LET rest == unique(SubSeq(names, 1, Len(names) - 1))
             last == names[Len(names)]
         IN IF \E k \in DOMAIN rest : rest[k] = last THEN rest
            ELSE Append(rest, last)

\* _infer_backup_filenames(record): the names of the three path fields, or
\* with none of them the names rebuilt from start_time, database_name, the
\* alias and the strategy's compress flag, then backup_{id}.sql[.gz].
infer_backup_filenames(rec) ==
    LET fields == <<rec.file_path, rec.remote_path, rec.object_storage_path>>
        usable(k) == fields[k].segs # <<>>
                     /\ name_of(fields[k]) \notin {"", ".", ".."}
        names == [ k \in 1..3 |-> name_of(fields[k]) ]
        kept == unique(SelectSeq([ k \in 1..3 |->
                                    IF usable(k) THEN names[k] ELSE "" ],
                                 LAMBDA x : x # ""))
        base == logical_filename(rec.alias, rec.database_name,
                                 strftime(rec.start_time))
    IN IF kept # <<>> THEN kept
       ELSE unique((IF rec.strategy /\ ~rec.compress
                    THEN <<base, base \o ".gz">>
                    ELSE <<base \o ".gz", base>>)
                   \o <<"backup_1.sql.gz", "backup_1.sql">>)

\* The runs: instance alias, method, the database_name argument, the
\* strategy's databases list, the compress flag, whether a strategy is
\* attached, and which path field of the record ends up holding the
\* artifact ("none": neither an upload nor a local copy is recorded).
NamingRuns ==
    { r \in [ alias : Aliases,
              backup_type : BackupTypes,
              database_name : {"", "shop"},
              databases : {<<>>, <<"shop">>},
              compress : BOOLEAN,
              strategy : BOOLEAN,
              storage : {"local", "remote", "oss", "none"} ] :
        /\ r.databases # <<>> => (r.strategy /\ r.database_name = "")
        /\ r.backup_type \in PhysicalTypes
           => (r.databases = <<>> /\ r.database_name = "") }

\* BackupRecord.objects.create(..., database_name=database_name or '',
\* start_time=timezone.now(), remote_path='', object_storage_path='')
create_backup_record_start_time ==
    /\ nm.step = "queued"
    /\ nm' = [nm EXCEPT !.step = "created",
                        !.start_time = timezone_now(nm.clock)]
    /\ UNCHANGED nonNamingVars

\* Time between the creation of the record and the executor's clock read.
second_passes ==
    /\ nm.step = "created"
    /\ nm.clock < MaxDelay
    /\ nm' = [nm EXCEPT !.clock = @ + 1]
    /\ UNCHANGED nonNamingVars

\* execute_backup: the timestamp and the filename of the artifact, for the
\* database of the call (the last of the strategy's list, or database_name).
execute_backup_filename ==
    /\ nm.step = "created"
    /\ \E gzip_ok \in BOOLEAN :
         LET timestamp == strftime(datetime_now(nm.clock))
             db == IF nm.databases # <<>> THEN nm.databases[Len(nm.databases)]
                   ELSE nm.database_name
         IN nm' = [nm EXCEPT
                     !.step = "produced",
                     !.filename =
                        IF nm.backup_type \in PhysicalTypes
                        THEN archive_name(nm.backup_type, nm.alias, timestamp,
                                          nm.compress)
                        ELSE IF nm.compress
                        THEN compress_file(
                               logical_filename(nm.alias, db, timestamp),
                               gzip_ok)
                        ELSE logical_filename(nm.alias, db, timestamp)]
    /\ UNCHANGED nonNamingVars

\* _execute_backup_core stores the result's file_path, remote_path and
\* object_storage_path in the record.
save_record_paths ==
    /\ nm.step = "produced"
    /\ nm' = [nm EXCEPT
                !.step = "saved",
                !.file_path = IF nm.storage = "local"
                              THEN local_path(nm.alias, nm.filename)
                              ELSE DotPath,
                !.remote_path = IF nm.storage = "remote"
                                THEN build_remote_path(nm.alias, nm.filename)
                                ELSE NoPath,
                !.object_storage_path = IF nm.storage = "oss"
                                        THEN object_path(nm.alias, nm.filename)
                                        ELSE NoPath]
    /\ UNCHANGED nonNamingVars

\* _prepare_backup_download_path: filenames = _infer_backup_filenames(record)
prepare_download_filenames ==
    /\ nm.step = "saved"
    /\ nm' = [nm EXCEPT !.step = "inferred",
                        !.candidates = infer_backup_filenames(nm)]
    /\ UNCHANGED nonNamingVars

InitNaming ==
    /\ inst = JobInstance
    /\ EngineIdle
    /\ JobIdle
    /\ RestoreIdle
    /\ OneOffIdle
    /\ RetentionIdle
    /\ DispatchIdle
    /\ TempIdle
    /\ BeatIdle
    /\ \E r \in NamingRuns :
         nm = [ step |-> "queued", clock |-> 0, alias |-> r.alias,
                backup_type |-> r.backup_type,
                database_name |-> r.database_name, databases |-> r.databases,
                compress |-> r.compress, strategy |-> r.strategy,
                storage |-> r.storage, start_time |-> 0, filename |-> "",
                file_path |-> NoPath, remote_path |-> NoPath,
                object_storage_path |-> NoPath, candidates |-> <<>> ]

NextNaming ==
    \/ create_backup_record_start_time
    \/ second_passes
    \/ execute_backup_filename
    \/ save_record_paths
    \/ prepare_download_filenames

SpecNaming == InitNaming /\ [][NextNaming]_vars

(***************************************************************************)
(* Dispatch: the callers that enqueue execute_backup_task or               *)
(* execute_oneoff_backup_task with .delay / .apply_async (admin.py,        *)
(* views.py, the beat entry of services.py) and the worker processes that  *)
(* run the task bodies (tasks.py).                                         *)
(***************************************************************************)
\* Worker processes consuming the queue.
Workers == 2

\* Messages the callers enqueue.
MaxMessages == 3

NoMessage == [ instance |-> 0, retries |-> 0 ]

\* execute_backup_task.delay(strategy_id=...) from trigger_backup_action,
\* response_change, the manual backup view and the beat entry;
\* execute_oneoff_backup_task.delay / apply_async: a message for an instance.
\* None of the callers looks at what is queued or running.
trigger_backup ==
    /\ disp.sent < MaxMessages
    /\ \E instance \in RetentionInstances :
         disp' = [disp EXCEPT
                    !.queue = Append(@, [instance |-> instance, retries |-> 0]),
                    !.sent = @ + 1]
    /\ UNCHANGED <<engineVars, jobVars, restoreVars, oneoffVars, retentionVars,
                   namingVars, tempVars, beatVars>>

\* A free worker process takes the next message and enters the task body,
\* which starts _execute_backup_core at once.
worker_takes ==
    /\ disp.queue # <<>>
    /\ \E w \in 1..Workers :
         /\ disp.running[w] = NoMessage
         /\ disp' = [disp EXCEPT !.queue = Tail(@),
                                 !.running = [@ EXCEPT ![w] = Head(disp.queue)]]
    /\ UNCHANGED <<engineVars, jobVars, restoreVars, oneoffVars, retentionVars,
                   namingVars, tempVars, beatVars>>

\* The task body returns: success, or failure with the retries used up.
job_returns ==
    /\ \E w \in 1..Workers :
         /\ disp.running[w] # NoMessage
         /\ disp' = [disp EXCEPT !.running = [@ EXCEPT ![w] = NoMessage]]
    /\ UNCHANGED <<engineVars, jobVars, restoreVars, oneoffVars, retentionVars,
                   namingVars, tempVars, beatVars>>

\* The task body raises self.retry(): the message goes back to the queue.
job_retries ==
    /\ \E w \in 1..Workers :
         /\ disp.running[w] # NoMessage
         /\ disp.running[w].retries < max_retries
         /\ disp' = [disp EXCEPT
                       !.running = [@ EXCEPT ![w] = NoMessage],
                       !.queue = Append(@, [disp.running[w] EXCEPT
                                              !.retries = @ + 1])]
    /\ UNCHANGED <<engineVars, jobVars, restoreVars, oneoffVars, retentionVars,
                   namingVars, tempVars, beatVars>>

InitDispatch ==
    /\ inst = JobInstance
    /\ EngineIdle
    /\ JobIdle
    /\ RestoreIdle
    /\ OneOffIdle
    /\ RetentionIdle
    /\ NamingIdle
    /\ disp = [ queue |-> <<>>, running |-> [ w \in 1..Workers |-> NoMessage ],
                sent |-> 0 ]
    /\ TempIdle
    /\ BeatIdle

NextDispatch ==
    \/ trigger_backup
    \/ worker_takes
    \/ job_returns
    \/ job_retries

SpecDispatch == InitDispatch /\ [][NextDispatch]_vars

(***************************************************************************)
(* Concurrent restores through BackupRecordViewSet.restore (views.py):     *)
(* each request downloads the artifact to a temporary file, hands the file *)
(* to RestoreExecutor and unlinks it in its finally clause.  cr.files maps *)
(* a temporary path to the request whose download wrote it last, 0 when    *)
(* the file does not exist.                                                *)
(***************************************************************************)
\* Restore requests in flight.
MaxRequests == 2

\* Records with a remote artifact only, by the filename inferred for them.
TempRecords == {"a.sql", "b.sql"}

\* temp_path = temp_dir / Path(remote_candidate).name
temp_path(record) == record

\* _prepare_backup_download_path: the download to temp_path, which replaces
\* what is there.
restore_download ==
    /\ \E q \in DOMAIN cr.pc :
         /\ cr.pc[q] = "received"
         /\ cr' = [cr EXCEPT !.pc[q] = "downloaded",
                             !.files[temp_path(cr.record[q])] = q]
    /\ UNCHANGED <<engineVars, jobVars, restoreVars, oneoffVars, retentionVars,
                   namingVars, dispatchVars, beatVars>>

\* RestoreExecutor.execute_restore starts: mysql reads restore_path.
restore_execute ==
    /\ \E q \in DOMAIN cr.pc :
         /\ cr.pc[q] = "downloaded"
         /\ cr' = [cr EXCEPT
                     !.pc[q] = "reading",
                     !.input[q] = cr.files[temp_path(cr.record[q])]]
    /\ UNCHANGED <<engineVars, jobVars, restoreVars, oneoffVars, retentionVars,
                   namingVars, dispatchVars, beatVars>>

\* execute_restore returns and the finally clause unlinks restore_path when
\* it exists.
restore_cleanup ==
    /\ \E q \in DOMAIN cr.pc :
         /\ cr.pc[q] = "reading"
         /\ cr' = [cr EXCEPT !.pc[q] = "done",
                             !.files[temp_path(cr.record[q])] = 0]
    /\ UNCHANGED <<engineVars, jobVars, restoreVars, oneoffVars, retentionVars,
                   namingVars, dispatchVars, beatVars>>

\* The response is sent; the client posts another restore.
restore_again ==
    /\ \E q \in DOMAIN cr.pc, r \in TempRecords :
         /\ cr.pc[q] = "done"
         /\ cr' = [cr EXCEPT !.pc[q] = "received", !.record[q] = r,
                             !.input[q] = 0]
    /\ UNCHANGED <<engineVars, jobVars, restoreVars, oneoffVars, retentionVars,
                   namingVars, dispatchVars, beatVars>>

InitTemp ==
    /\ inst = JobInstance
    /\ EngineIdle
    /\ JobIdle
    /\ RestoreIdle
    /\ OneOffIdle
    /\ RetentionIdle
    /\ NamingIdle
    /\ DispatchIdle
    /\ \E rs \in [1..MaxRequests -> TempRecords] :
         cr = [ pc |-> [ q \in 1..MaxRequests |-> "received" ],
                record |-> rs,
                input |-> [ q \in 1..MaxRequests |-> 0 ],
                files |-> [ f \in TempRecords |-> 0 ] ]
    /\ BeatIdle

NextTemp ==
    \/ restore_download
    \/ restore_execute
    \/ restore_cleanup
    \/ restore_again

SpecTemp == InitTemp /\ [][NextTemp]_vars

(***************************************************************************)
(* Schedule synchronisation: StrategyManager.sync_to_celery_beat           *)
(* (services.py) and the handlers that change BackupStrategy rows and call *)
(* it (serializers.py, views.py).  beat.strategies maps an id to "none"    *)
(* (never created), "enabled", "disabled" or "deleted"; beat.periodic is   *)
(* the set of ids n with a PeriodicTask named backup_strategy_<n>.         *)
(***************************************************************************)
\* Strategy ids ever handed out.
MaxStrategies == 3

StrategyIds == 1..MaxStrategies

\* sync_to_celery_beat: update_or_create a task for every enabled strategy,
\* delete the task of every disabled strategy, count both.  repeat says the
\* sync ran with no strategy change since the sync before; request names
\* the handler that ran last.
sync_to_celery_beat(b) ==
    LET enabled == { n \in StrategyIds : b.strategies[n] = "enabled" }
        disabled == { n \in StrategyIds : b.strategies[n] = "disabled" }
    IN [ b EXCEPT
           !.periodic = (@ \cup enabled) \ disabled,
           !.last = [ created |-> Cardinality(enabled \ b.periodic),
                      updated |-> Cardinality(enabled \cap b.periodic),
                      deleted |-> Cardinality(disabled \cap b.periodic) ],
           !.repeat = b.synced,
           !.synced = TRUE ]

\* BackupStrategyCreateSerializer.create: the row, and the sync when the
\* strategy is enabled.
strategy_create ==
    /\ \E n \in StrategyIds, is_enabled \in BOOLEAN :
         /\ beat.strategies[n] = "none"
         /\ \A k \in StrategyIds : k < n => beat.strategies[k] # "none"
         /\ LET b == [beat EXCEPT
                        !.strategies[n] = IF is_enabled THEN "enabled"
                                          ELSE "disabled",
                        !.request = "strategy_create",
                        !.synced = FALSE]
            IN beat' = IF is_enabled THEN sync_to_celery_beat(b) ELSE b
    /\ UNCHANGED <<engineVars, jobVars, restoreVars, oneoffVars, retentionVars,
                   namingVars, dispatchVars, tempVars>>

\* BackupStrategyCreateSerializer.update: the fields are saved, is_enabled among
\* them, and the sync runs whatever the strategy's state.
strategy_update ==
    /\ \E n \in StrategyIds, is_enabled \in BOOLEAN :
         /\ beat.strategies[n] \in {"enabled", "disabled"}
         /\ beat' = sync_to_celery_beat(
                      [beat EXCEPT
                         !.strategies[n] = IF is_enabled THEN "enabled"
                                           ELSE "disabled",
                         !.request = "strategy_update",
                         !.synced = FALSE])
    /\ UNCHANGED <<engineVars, jobVars, restoreVars, oneoffVars, retentionVars,
                   namingVars, dispatchVars, tempVars>>

\* BackupStrategyViewSet.enable: POST /strategies/{id}/enable/
enable ==
    /\ \E n \in StrategyIds :
         /\ beat.strategies[n] = "disabled"
         /\ beat' = sync_to_celery_beat(
                      [beat EXCEPT !.strategies[n] = "enabled",
                                   !.request = "enable",
                         !.synced = FALSE])
    /\ UNCHANGED <<engineVars, jobVars, restoreVars, oneoffVars, retentionVars,
                   namingVars, dispatchVars, tempVars>>

\* BackupStrategyViewSet.disable: POST /strategies/{id}/disable/
disable ==
    /\ \E n \in StrategyIds :
         /\ beat.strategies[n] = "enabled"
         /\ beat' = sync_to_celery_beat(
                      [beat EXCEPT !.strategies[n] = "disabled",
                                   !.request = "disable",
                         !.synced = FALSE])
    /\ UNCHANGED <<engineVars, jobVars, restoreVars, oneoffVars, retentionVars,
                   namingVars, dispatchVars, tempVars>>

\* DELETE /strategies/{id}/: the destroy of ModelViewSet, which deletes the
\* row and nothing else.
strategy_destroy ==
    /\ \E n \in StrategyIds :
         /\ beat.strategies[n] \in {"enabled", "disabled"}
         /\ beat' = [beat EXCEPT !.strategies[n] = "deleted",
                                 !.request = "strategy_destroy",
                        !.synced = FALSE]
    /\ UNCHANGED <<engineVars, jobVars, restoreVars, oneoffVars, retentionVars,
                   namingVars, dispatchVars, tempVars>>

\* BackupStrategyViewSet.sync: POST /strategies/sync/
sync ==
    /\ beat' = sync_to_celery_beat([beat EXCEPT !.request = "sync"])
    /\ UNCHANGED <<engineVars, jobVars, restoreVars, oneoffVars, retentionVars,
                   namingVars, dispatchVars, tempVars>>

InitBeat ==
    /\ inst = JobInstance
    /\ EngineIdle
    /\ JobIdle
    /\ RestoreIdle
    /\ OneOffIdle
    /\ RetentionIdle
    /\ NamingIdle
    /\ DispatchIdle
    /\ TempIdle
    /\ beat = [ strategies |-> [ n \in StrategyIds |-> "none" ],
                periodic |-> {},
                last |-> [ created |-> 0, updated |-> 0, deleted |-> 0 ],
                repeat |-> FALSE,
                request |-> "",
                synced |-> FALSE ]

NextBeat ==
    \/ strategy_create
    \/ strategy_update
    \/ enable
    \/ disable
    \/ strategy_destroy
    \/ sync

SpecBeat == InitBeat /\ [][NextBeat]_vars

(***************************************************************************)
(* Properties.                                                             *)
(***************************************************************************)
Range(seq) == { seq[i] : i \in DOMAIN seq }

Pos(seq, x) == { i \in DOMAIN seq : seq[i] = x }

\* Records the job created in its own attempts.
JobRecords == { i \in DOMAIN records : records[i].of_job }

\* C1: once the task has handled the exception of a failed attempt (a retry
\* is scheduled or the task returned), no record the job created is left in
\* status 'running': it is 'failed' with an end_time and the error message.
C1_failed_attempt_marks_record ==
    jpc \in {"retry", "finished"} =>
        \A i \in JobRecords :
            /\ records[i].status # "running"
            /\ records[i].status = "failed" =>
                   (records[i].end_time /\ records[i].error_message # "")

\* C2: the task body runs at most 4 times; the attempt with retry counter r
\* in {0,1,2} schedules exactly one retry with countdown 60*(r+1); the
\* attempt with r = 3 schedules none and returns the failure dict, after
\* which no task step can happen for the job.
C2_retry_schedule ==
    /\ runs <= 4
    /\ Len(countdowns) <= 3
    /\ \A i \in DOMAIN countdowns : countdowns[i] = 60 * i
    /\ runs = retries + (IF jpc = "queued" THEN 0 ELSE 1)
    /\ jpc = "retry" => (retries \in {0, 1, 2} /\ Len(countdowns) = retries + 1)
    /\ jpc \in {"queued", "engine"} => Len(countdowns) = retries
    /\ (jpc = "finished" /\ ret = "failure") =>
           (retries = 3 /\ runs = 4 /\ countdowns = <<60, 120, 180>>)
    /\ jpc = "finished" => ~ENABLED JobStep

\* A job that failed in all four attempts.
C2_witness ==
    /\ jpc = "finished"
    /\ ret = "failure"
    /\ runs = 4
    /\ countdowns = <<60, 120, 180>>
    /\ Len(engine_calls) = 4

\* C3: an incremental job for an instance with no successful hot or
\* incremental record never schedules a retry and never calls the engine.
C3_missing_base_not_retried ==
    (/\ resolve_config(job).backup_type = "incremental"
     /\ ~normalise(resolve_config(job)).error
     /\ base_backup_of(records) = NoRecord)
    => (countdowns = <<>> /\ engine_calls = <<>>)

\* The number of storage targets a call selects.
Selected(c) ==
    Cardinality({ t \in {"local", "remote", "oss"} :
                    \/ (t = "local" /\ c.store_local)
                    \/ (t = "remote" /\ c.store_remote)
                    \/ (t = "oss" /\ c.store_oss) })

\* C4: when exactly one of store_local, store_remote, store_oss is
\* requested, a success result keeps the local file, has a remote_path or
\* has an object_storage_path exactly as requested.
C4_exactly_the_requested_location ==
    (epc = "done" /\ result.success /\ Selected(call) = 1) =>
        /\ (result.file_path = "F") = call.store_local
        /\ (ex.file = "present") = call.store_local
        /\ result.remote_path = call.store_remote
        /\ result.object_storage_path = call.store_oss

\* C5: with store_remote selected a success result always carries a
\* remote_path, for every backup method.
C5_remote_failure_fails_backup ==
    (epc = "done" /\ call.store_remote /\ result.success) => result.remote_path

\* C6: in a cold backup tar is issued only after stop returned 0 and before
\* start; start is never issued before stop; and once the stop/tar block is
\* left after stop was issued, start has been issued after it.
C6_cold_stop_tar_start ==
    call.backup_type = "cold" =>
        /\ \A t \in Pos(ops, "tar") :
              /\ ex.stop_code = "ok"
              /\ \E p \in Pos(ops, "stop") : p < t
              /\ \A u \in Pos(ops, "start") : t < u
        /\ \A u \in Pos(ops, "start") : \E p \in Pos(ops, "stop") : p < u
        /\ Cardinality(Pos(ops, "stop")) <= 1
        /\ (Pos(ops, "stop") # {}
            /\ epc \notin {"cold_stop", "cold_tar", "cold_start"})
           => \E u \in Pos(ops, "start") : \A p \in Pos(ops, "stop") : p < u

\* A cold backup whose stop returned non-zero and whose server was started
\* again before the failure was returned.
C6_witness ==
    /\ call.backup_type = "cold"
    /\ epc = "done"
    /\ result.error = "stop_failed"
    /\ ops = <<"mkdir_local", "mkdir", "stop", "start">>

\* C7: a cold backup of a docker instance without a container name never
\* issues the stop command.
C7_cold_docker_without_name_never_stops ==
    (/\ call.backup_type = "cold"
     /\ inst.deployment_type = "docker"
     /\ ~inst.docker_container_name)
    => "stop" \notin Range(ops)

\* C8 as stated: every restore of a physical record is answered with the
\* physical-backup error, with no download and no RestoreExecutor call.
C8_physical_restore_explicit_error ==
    (rreq.via # "none" /\ rreq.record.backup_type \in PhysicalTypes
     /\ rpc = "done")
    => (rresp = "physical_offline_only" /\ rlog = <<>>)

\* C8 amended: a restore of a physical record never downloads anything and
\* never reaches RestoreExecutor; it is answered with the physical-backup
\* error when the record's status is success and the request body is valid,
\* and otherwise with the error of the earlier check that failed.
C8_physical_restore_rejected ==
    (rreq.via # "none" /\ rreq.record.backup_type \in PhysicalTypes) =>
        /\ rlog = <<>>
        /\ rpc \in {"received", "done"}
        /\ rpc = "done" =>
             rresp = (IF ~rreq.confirm THEN "invalid_request"
                      ELSE IF rreq.record.status # "success" THEN "not_success"
                      ELSE "physical_offline_only")

\* An API restore of a successful hot record with a retrievable artifact,
\* answered with the physical-backup error.
C8_witness ==
    /\ rreq.via = "api"
    /\ rreq.confirm
    /\ rreq.record.backup_type = "hot"
    /\ rreq.record.status = "success"
    /\ rreq.record.local = "file"
    /\ rpc = "done"
    /\ rresp = "physical_offline_only"

\* A full backup without database scope that reached the dump tool.
UnscopedDump ==
    /\ call.backup_type = "full"
    /\ call.database_name = ""
    /\ "dump" \in Range(ops)

C10_physical_rejects_database_scope ==
    /\ (call.backup_type \in PhysicalTypes /\ call.database_name # "") =>
          /\ ops = <<>>
          /\ ex = ExInit
          /\ epc \in {"call", "done"}
          /\ epc = "done" => (~result.success
                              /\ result.error = "no_single_database")
    /\ (job.kind # "none" /\ job.backup_type \in PhysicalTypes
        /\ resolve_config(job).databases # <<>>) =>
          /\ ret # "success"
          /\ dbi <= 1
          /\ Len(engine_calls) <= runs
          /\ \A i \in DOMAIN engine_calls :
                engine_calls[i] = resolve_config(job).databases[1]
          /\ \A i \in JobRecords : records[i].status # "success"

\* A hot strategy listing two databases that failed at the first one in
\* every attempt.
C10_witness ==
    /\ job.kind = "strategy"
    /\ job.backup_type = "hot"
    /\ Len(job.databases) = 2
    /\ jpc = "finished"
    /\ ret = "failure"
    /\ engine_calls = <<"shop", "shop", "shop", "shop">>
    /\ result.error = "no_single_database"

\* The configuration and base checks of _execute_backup_core pass, so the
\* attempt gets as far as creating its record.
ReachesRecord ==
    /\ job.kind # "none"
    /\ ~normalise(resolve_config(job)).error
    /\ resolve_config(job).backup_type = "incremental"
          => base_backup_of(records) # NoRecord

\* C11 as stated: after k attempts of one job there are k distinct records
\* of the job.
C11_one_record_per_attempt ==
    job.kind # "none" => Cardinality(JobRecords) = runs

\* C11 amended: a record whose status is 'success' or 'failed' never changes
\* status again and no record is ever removed or reset; every attempt that
\* passes the configuration and base checks appends one new 'running'
\* record, so such a job has as many records as attempts, while an attempt
\* failing those checks creates no record.
C11_records_final_new_per_attempt ==
    [][ /\ \A i \in DOMAIN records :
              /\ i \in DOMAIN records'
              /\ records[i].status \in {"success", "failed"}
                    => records'[i].status = records[i].status
              /\ records'[i].base_backup = records[i].base_backup
        /\ IF runs' = runs + 1 /\ ReachesRecord
           THEN /\ Len(records') = Len(records) + 1
                /\ records'[Len(records')].status = "running"
                /\ records'[Len(records')].of_job
           ELSE Len(records') = Len(records)
        /\ Cardinality(JobRecords') = (IF ReachesRecord THEN runs' ELSE 0)
      ]_vars

\* Four attempts of one job, each of which left its own record.
C11_witness ==
    /\ jpc = "finished"
    /\ runs = 4
    /\ Cardinality(JobRecords) = 4
    /\ \E i \in JobRecords : records[i].status = "success"

\* C12: a one-off task's status only moves pending -> running -> {success,
\* failed}; once it is success or failed it never becomes running or pending
\* again, also when the queue delivers a retry.
C12_oneoff_status_never_goes_back ==
    [][ job.kind = "oneoff" =>
          /\ task.status \in {"success", "failed"}
                => task'.status \notin {"running", "pending"}
          /\ task.status = "running" => task'.status # "pending"
      ]_vars

\* C13: a one-off task becomes 'canceled' only from 'pending', and a cancel
\* request that is rejected leaves the task unchanged.
C13_cancel_only_while_pending ==
    [][ /\ (task'.status = "canceled" /\ task.status # "canceled")
              => task.status = "pending"
        /\ (cresp' = "rejected" /\ cresp # "rejected") => task' = task
      ]_vars


(***************************************************************************)
(* Retention claims, under SpecRetention.                                  *)
(***************************************************************************)
\* C14: between operations, every retained successful incremental record
\* references an existing base record of type hot or incremental.
C14_retained_incremental_has_base ==
    sw.kind = "none" =>
        \A i \in Live(store) :
            (store[i].status = "success" /\ store[i].backup_type = "incremental")
            => /\ store[i].base # 0
               /\ store[store[i].base].live
               /\ store[store[i].base].backup_type \in {"hot", "incremental"}

\* C15: the second of two age sweeps in a row with the same arguments
\* selects nothing, deletes nothing and leaves rows and files as they were.
C15_second_age_sweep_deletes_nothing ==
    (sw.kind = "age" /\ sw.run = 2)
    => /\ sw.todo = <<>>
       /\ sw.step = "done"
       /\ sw.deleted_count = 0
       /\ sw.log = <<>>
       /\ store = sw.before

C15_witness ==
    /\ sw.kind = "age"
    /\ sw.run = 2
    /\ sw.step = "done"
    /\ sw.prev = 2
    /\ \E i \in Live(store) : store[i].status = "success" /\ ~store[i].old

\* The rows a sweep selected when it started.
SweepTargets ==
    IF sw.kind = "age" THEN expired_records(sw.before, sw.instance)
    ELSE IF sw.kind = "limit" THEN excess_backups(sw.before, sw.instance)
    ELSE <<>>

\* C16: in both sweeps the unlink attempt on a record's file comes before
\* the deletion of the record and never after it, and a failed unlink
\* neither keeps that record nor the following ones from being deleted.
C16_unlink_before_delete_and_continue ==
    sw.kind \in {"age", "limit"} =>
        /\ \A p \in DOMAIN sw.log :
             sw.log[p][1] = "delete" =>
                LET r == sw.log[p][2]
                IN /\ sw.before[r].file = "present"
                      => \E q \in 1..(p - 1) :
                            sw.log[q][1] = "unlink" /\ sw.log[q][2] = r
                   /\ \A q \in (p + 1)..Len(sw.log) :
                         ~(sw.log[q][1] = "unlink" /\ sw.log[q][2] = r)
        /\ sw.step = "done" =>
             /\ sw.deleted_count = Len(SweepTargets)
             /\ \A r \in Range(SweepTargets) :
                  /\ store[r] = Deleted
                  /\ \E p \in DOMAIN sw.log : sw.log[p] = <<"delete", r, "ok">>

C16_witness ==
    /\ sw.kind \in {"age", "limit"}
    /\ sw.step = "done"
    /\ Len(SweepTargets) = 2
    /\ sw.log[1] = <<"unlink", SweepTargets[1], "raise">>
    /\ sw.log[2] = <<"delete", SweepTargets[1], "ok">>
    /\ sw.log[Len(sw.log)] = <<"delete", SweepTargets[2], "ok">>

\* The max_files most recent successful rows of the swept instance at entry.
MostRecent ==
    LET backups == NewestFirst(SuccessOf(sw.before, sw.instance))
    IN { backups[k] : k \in 1..(IF Len(backups) < max_files THEN Len(backups)
                                ELSE max_files) }

LimitSweepKeepsMostRecent ==
    /\ Cardinality(SuccessOf(store, sw.instance)) <= max_files
    /\ SuccessOf(store, sw.instance) = MostRecent
    /\ \A i \in MostRecent : [store[i] EXCEPT !.base = 0]
                             = [sw.before[i] EXCEPT !.base = 0]
    /\ sw.deleted_count
         = Cardinality(SuccessOf(sw.before, sw.instance) \ MostRecent)

Untouched ==
    { i \in Live(sw.before) : \/ sw.before[i].inst # sw.instance
                              \/ sw.before[i].status # "success" }

C18_config_and_data_errors_not_retried ==
    /\ (job.kind # "none" /\ normalise(resolve_config(job)).error)
       => countdowns = <<>>
    /\ jpc = "retry"
       => result.error \notin {"dump_failed", "backup_tool_failed", "no_data_dir"}


\* C19: _prepare_backup_download_path uses the local file when there is
\* one without any download, tries remote candidates before object-storage
\* candidates, and answers that nothing was found only after every remote
\* and every object-storage candidate has been tried: a failed download
\* does not keep the remaining candidates of its kind from being tried.
C19_every_candidate_tried_in_order ==
    rreq.via = "api" =>
        /\ rreq.record.local = "file"
           => \A p \in DOMAIN rlog : rlog[p].op \in {"RestoreExecutor", "unlink"}
        /\ \A p, q \in DOMAIN rlog :
             (rlog[p].op = "download_remote" /\ rlog[q].op = "download_oss")
             => p < q
        /\ rresp = "not_found"
           => /\ Tried(rlog, "download_remote") = remote_candidates(rreq)
              /\ Tried(rlog, "download_oss") = object_candidates(rreq)


\* C20: the names _infer_backup_filenames derives for the record of a run
\* contain the exact filename execute_backup produced, when the record
\* carries the name in a path field and when it carries no path.
C20_inferred_names_contain_artifact ==
    nm.step = "inferred" => nm.filename \in Range(nm.candidates)


\* C21: for a job whose storage_mode is default, mysql_host, remote_server
\* or oss, every engine call carries exactly one true flag among store_local,
\* store_remote and store_oss, the one of the mode, whatever flags the row
\* carried.
C21_one_target_per_mode ==
    (job.kind # "none" /\ job.storage_mode \in StorageModes /\ call # NoCall)
    => /\ call.store_local = (job.storage_mode = "default")
       /\ call.store_remote = (job.storage_mode \in {"mysql_host",
                                                     "remote_server"})
       /\ call.store_oss = (job.storage_mode = "oss")
       /\ Selected(call) = 1

C21_witness ==
    /\ job.kind = "strategy"
    /\ job.storage_mode = "mysql_host"
    /\ job.store_local /\ ~job.store_remote /\ job.store_oss
    /\ dbi = 2
    /\ call # NoCall
    /\ ~call.store_local /\ call.store_remote /\ ~call.store_oss


\* C22: the local artifact of an execute_backup run is deleted only when a
\* remote path or an object-storage path was obtained for it.
C22_local_deleted_only_after_placement ==
    ex.file = "deleted" => (ex.remote_keep \/ ex.oss)


\* C23: when a hot or incremental run has ended, with success or failure,
\* the scratch directory it created on the MySQL host, the uploaded base
\* archive and the extracted base directory have been removed.
C23_no_scratch_left_behind ==
    (epc = "done" /\ call.backup_type \in {"hot", "incremental"})
    => ex.scratch \cap {"dir", "base_archive", "base_dir"} = {}


\* The successful hot or incremental rows of an instance.
EligibleBases(st, instance) ==
    { k \in Live(st) : /\ st[k].inst = instance
                       /\ st[k].backup_type \in {"hot", "incremental"}
                       /\ st[k].status = "success" }

\* C24: the base attached to an incremental backup when it is handed to the
\* engine is the most recently created successful hot or incremental record
\* of the same instance; so an incremental record never is 'success' while
\* its base record is not.
C24_base_is_latest_success_of_instance ==
    [][ /\ (Len(store') = Len(store) + 1
            /\ store'[Len(store')].backup_type = "incremental")
           => LET new == store'[Len(store')]
              IN /\ new.base \in EligibleBases(store, new.inst)
                 /\ \A k \in EligibleBases(store, new.inst) : k <= new.base
        /\ \A i \in Live(store') :
             (/\ store'[i].backup_type = "incremental"
              /\ store'[i].status = "success"
              /\ store'[i].base # 0)
             => store'[store'[i].base].status = "success"
      ]_vars

C24_witness ==
    /\ Len(store) = 3
    /\ store[1].live /\ store[1].inst = 1 /\ store[1].backup_type = "hot"
    /\ store[1].status = "success"
    /\ store[2].live /\ store[2].inst = 2 /\ store[2].status = "success"
    /\ store[3].live /\ store[3].inst = 1
    /\ store[3].backup_type = "incremental"
    /\ store[3].status = "success"
    /\ store[3].base = 1


\* C27: a delivery of execute_oneoff_backup_task for a task whose status is
\* 'canceled' creates no BackupRecord, makes no engine call and leaves the
\* status 'canceled'.
C27_canceled_task_not_executed ==
    [][ (job.kind = "oneoff" /\ task.status = "canceled" /\ jpc = "queued")
        => /\ task'.status = "canceled"
           /\ records' = records
           /\ engine_calls' = engine_calls ]_vars


\* C28: in a job that lists two or more databases, when the task has handled
\* the successful result of a per-database engine call, a BackupRecord of
\* the job carries the paths of that result.
C28_every_artifact_has_a_record ==
    [][ (/\ Len(resolve_config(job).databases) >= 2
         /\ jpc = "engine" /\ epc = "done" /\ result.success)
        => \E i \in DOMAIN records' :
              /\ records'[i].of_job
              /\ records'[i].file_path = result.file_path
              /\ records'[i].remote_path = result.remote_path
              /\ records'[i].object_storage_path = result.object_storage_path
      ]_vars


\* C29: a retry is scheduled only for an attempt whose backup did not
\* succeed: the step that schedules a retry never leaves the BackupRecord of
\* the attempt with status 'success'.
C29_no_retry_after_success ==
    [][ Len(countdowns') > Len(countdowns)
        => (records' # <<>> /\ records'[Len(records')].of_job
            => records'[Len(records')].status # "success") ]_vars


\* C25: at most one backup job per MySQL instance is executing at any time.
C25_one_job_per_instance ==
    \A w1, w2 \in DOMAIN disp.running :
        (/\ w1 # w2
         /\ disp.running[w1] # NoMessage
         /\ disp.running[w2] # NoMessage)
        => disp.running[w1].instance # disp.running[w2].instance


\* C26: while a restore holds a downloaded temporary file, before and while
\* RestoreExecutor reads it, the file exists and is the one this restore
\* downloaded: no other restore has unlinked or overwritten it.
C26_temp_file_is_private ==
    \A q \in DOMAIN cr.pc :
        cr.pc[q] \in {"downloaded", "reading"}
        => cr.files[temp_path(cr.record[q])] = q


\* C30: after a sync, a PeriodicTask backup_strategy_<id> exists exactly for
\* the strategies that exist and are enabled, and a sync repeated with no
\* strategy change creates no task and deletes none.
C30_periodic_tasks_match_enabled ==
    beat.synced =>
        /\ \A n \in StrategyIds :
             n \in beat.periodic <=> beat.strategies[n] = "enabled"
        /\ beat.repeat => (beat.last.created = 0 /\ beat.last.deleted = 0)

====
